---------------------------- MODULE Spec2Model ----------------------------
(***************************************************************************)
(* Model of the vector_dbc signal codec: message construction and refresh  *)
(* (sorting, codec tree, overlap/fit validator), Message.encode and        *)
(* Message.decode with multiplexer traversal, scaling, choices, padding.   *)
(*                                                                         *)
(* Python integers that hold packed frames are unbounded; they are         *)
(* represented here as the set of their 1-bit positions (bit 0 = LSB), so  *)
(* that | is \cup, & is \cap and no machine width truncates them.          *)
(* Signal values are small integers; is_float signals (IEEE-754 packing)   *)
(* are outside the model, every modelled signal has is_float = False.      *)
(***************************************************************************)
EXTENDS Integers, Sequences, FiniteSets, TLC

(***************************************************************************)
(* Values: Python objects that appear as dict values (int, str, None).     *)
(***************************************************************************)
Num(n) == [k |-> "num", n |-> n, s |-> ""]
Str(s) == [k |-> "str", n |-> 0, s |-> s]
None == [k |-> "none", n |-> 0, s |-> ""]

IsNum(v) == v.k = "num"
IsStr(v) == v.k = "str"

\* Bound: largest integer a caller puts into the input dict.
MaxValue == 4

\* The strings a caller puts into the input dict.
ChoiceStrings == {"A", "B", "Z"}

Values == {Num(n) : n \in 0..MaxValue} \cup {Str(s) : s \in ChoiceStrings}

(***************************************************************************)
(* Helpers on sequences and on integers-as-bit-sets.                       *)
(***************************************************************************)
Range(f) == {f[x] : x \in DOMAIN f}

Max(S) == CHOOSE x \in S : \A y \in S : y <= x

RECURSIVE SumLen(_)
SumLen(items) ==
    IF items = <<>> THEN 0 ELSE Head(items).length + SumLen(Tail(items))

\* The 1-bits of the non-negative integer v, among its low `width` bits.
BitsOf(v, width) == {j \in 0..(width - 1) : (v \div (2^j)) % 2 = 1}

RECURSIVE IntOf(_)
IntOf(bits) ==
    IF bits = {} THEN 0
    ELSE LET b == CHOOSE x \in bits : TRUE IN 2^b + IntOf(bits \ {b})

\* bytes[::-1] on an integer of nbytes bytes.
ReverseBytes(bits, nbytes) ==
    {8 * ((nbytes - 1) - (i \div 8)) + (i % 8) : i \in bits}

(***************************************************************************)
(* utils.start_bit                                                         *)
(***************************************************************************)
\* The start taken as a stream position whatever the byte order.
start_bit_unflipped(data) == data.start

start_bit(data) ==
    IF data.byte_order = "big_endian"
    THEN 8 * (data.start \div 8) + (7 - (data.start % 8))
    ELSE data.start

\* list.sort(key=start_bit): a stable insertion sort.
RECURSIVE InsertSorted(_, _)
InsertSorted(sorted, sig) ==
    IF sorted = <<>> THEN <<sig>>
    ELSE IF start_bit(Head(sorted)) <= start_bit(sig)
         THEN <<Head(sorted)>> \o InsertSorted(Tail(sorted), sig)
         ELSE <<sig>> \o sorted

RECURSIVE SortSignals(_)
SortSignals(sigs) ==
    IF sigs = <<>> THEN <<>>
    ELSE InsertSorted(SortSignals(SubSeq(sigs, 1, Len(sigs) - 1)), sigs[Len(sigs)])

(***************************************************************************)
(* utils.create_encode_decode_formats                                      *)
(* An item is a padding run or a data field of the bitstruct format.       *)
(***************************************************************************)
padding_item(length) == [pad |-> TRUE, length |-> length, name |-> "", signed |-> FALSE]

data_item(data) ==
    [pad |-> FALSE, length |-> data.length, name |-> data.name, signed |-> data.is_signed]

RECURSIVE BigItems(_, _)
BigItems(datas, start) ==
    IF datas = <<>> THEN <<>>
    ELSE LET data == Head(datas) IN
         IF data.byte_order = "little_endian" THEN BigItems(Tail(datas), start)
         ELSE LET padding_length == start_bit(data) - start IN
              (IF padding_length > 0 THEN <<padding_item(padding_length)>> ELSE <<>>)
              \o <<data_item(data)>>
              \o BigItems(Tail(datas), start_bit(data) + data.length)

RECURSIVE BigEnd(_, _)
BigEnd(datas, start) ==
    IF datas = <<>> THEN start
    ELSE LET data == Head(datas) IN
         IF data.byte_order = "little_endian" THEN BigEnd(Tail(datas), start)
         ELSE BigEnd(Tail(datas), start_bit(data) + data.length)

create_big(datas, format_length) ==
    LET start == BigEnd(datas, 0) IN
    BigItems(datas, 0)
    \o (IF start < format_length THEN <<padding_item(format_length - start)>> ELSE <<>>)

Reverse(s) == [i \in 1..Len(s) |-> s[Len(s) + 1 - i]]

RECURSIVE LittleItems(_, _)
LittleItems(rdatas, end) ==
    IF rdatas = <<>> THEN <<>>
    ELSE LET data == Head(rdatas) IN
         IF data.byte_order = "big_endian" THEN LittleItems(Tail(rdatas), end)
         ELSE LET padding_length == end - (data.start + data.length) IN
              (IF padding_length > 0 THEN <<padding_item(padding_length)>> ELSE <<>>)
              \o <<data_item(data)>>
              \o LittleItems(Tail(rdatas), data.start)

RECURSIVE LittleEnd(_, _)
LittleEnd(rdatas, end) ==
    IF rdatas = <<>> THEN end
    ELSE LET data == Head(rdatas) IN
         IF data.byte_order = "big_endian" THEN LittleEnd(Tail(rdatas), end)
         ELSE LittleEnd(Tail(rdatas), data.start)

create_little(datas, format_length) ==
    LET end == LittleEnd(Reverse(datas), format_length) IN
    LittleItems(Reverse(datas), format_length)
    \o (IF end > 0 THEN <<padding_item(end)>> ELSE <<>>)

\* Offset of item i in the MSB-first bit stream of the format.
ItemOffset(items, i) == SumLen(SubSeq(items, 1, i - 1))

\* int(''.join(mask strings), 2): bit set of the padding positions.
padding_mask(items) ==
    LET total == SumLen(items) IN
    UNION {
        IF items[i].pad
        THEN {total - 1 - p : p \in ItemOffset(items, i)..(ItemOffset(items, i) + items[i].length - 1)}
        ELSE {}
        : i \in 1..Len(items)}

\* The little mask is packed as u<total> (left aligned in whole bytes) and
\* byte-reversed.
\* A variant that leaves the little-endian signals out of the mask.
little_padding_mask_blank(items, format_length) == 0..(format_length - 1)

little_padding_mask(items, format_length) ==
    LET total == SumLen(items)
        nbytes == (total + 7) \div 8
        value == padding_mask(items)
    IN IF format_length > 0
       THEN ReverseBytes({i + (8 * nbytes - total) : i \in value}, nbytes)
       ELSE value

create_encode_decode_formats(datas, number_of_bytes) ==
    LET format_length == 8 * number_of_bytes
        big == create_big(datas, format_length)
        little == create_little(datas, format_length)
    IN [big_endian |-> big,
        little_endian |-> little,
        padding_mask |-> padding_mask(big) \cap little_padding_mask(little, format_length)]

(***************************************************************************)
(* bitstruct (external packer), as the codec uses it: compiled formats     *)
(* packing a dict of integers MSB first into whole bytes, rejecting None   *)
(* and integers outside the field's range; unpack needs enough bits.       *)
(***************************************************************************)
FieldFits(item, n) ==
    IF item.signed
    THEN -(2^(item.length - 1)) <= n /\ n <= 2^(item.length - 1) - 1
    ELSE 0 <= n /\ n <= 2^item.length - 1

RECURSIVE PackError(_, _)
PackError(items, unpacked) ==
    IF items = <<>> THEN "none"
    ELSE LET item == Head(items) IN
         IF item.pad THEN PackError(Tail(items), unpacked)
         ELSE IF ~IsNum(unpacked[item.name]) THEN "TypeError"
         ELSE IF ~FieldFits(item, unpacked[item.name].n) THEN "PackError"
         ELSE PackError(Tail(items), unpacked)

\* The packed bytes read as one integer (int(binascii.hexlify(...), 16)).
PackBits(items, unpacked) ==
    LET total == SumLen(items)
        P == 8 * ((total + 7) \div 8)
    IN UNION {
        IF items[i].pad THEN {}
        ELSE LET n == unpacked[items[i].name].n
                 len == items[i].length
                 u == IF n < 0 THEN n + 2^len ELSE n
                 off == ItemOffset(items, i)
             IN {P - 1 - (off + len - 1 - j) : j \in BitsOf(u, len)}
        : i \in 1..Len(items)}

PackedBytes(items) == (SumLen(items) + 7) \div 8

\* Bit p (0 = first) of the MSB-first stream of a byte sequence.
StreamBit(frame, p) == (frame[(p \div 8) + 1] \div (2^(7 - (p % 8)))) % 2

RECURSIVE UnsignedAt(_, _, _)
UnsignedAt(frame, off, len) ==
    IF len = 0 THEN 0
    ELSE 2 * UnsignedAt(frame, off, len - 1) + StreamBit(frame, off + len - 1)

UnpackItem(items, i, frame) ==
    LET u == UnsignedAt(frame, ItemOffset(items, i), items[i].length) IN
    IF items[i].signed /\ u >= 2^(items[i].length - 1)
    THEN u - 2^items[i].length
    ELSE u

\* unpack raises when the buffer holds fewer bits than the format.
UnpackFails(items, frame) == 8 * Len(frame) < SumLen(items)

ItemIndex(items, name) == CHOOSE i \in 1..Len(items) : ~items[i].pad /\ items[i].name = name

HasItem(items, name) == \E i \in 1..Len(items) : ~items[i].pad /\ items[i].name = name

(***************************************************************************)
(* Signal.choices: None or an insertion-ordered dict number -> string.     *)
(***************************************************************************)
NoChoices == [none |-> TRUE, items |-> <<>>]
Choices(items) == [none |-> FALSE, items |-> items]

\* Signal.choice_string_to_number: first number whose string matches; falls
\* off the loop (returns None) when no string matches.  With choices = None
\* the call raises AttributeError, which the callers test with .none first.
choice_string_to_number(field, string) ==
    LET hits == {i \in 1..Len(field.choices.items) : field.choices.items[i].s = string} IN
    IF hits = {} THEN None
    ELSE Num(field.choices.items[CHOOSE i \in hits : \A j \in hits : i <= j].n)

\* field.choices[value]
HasChoice(field, n) ==
    ~field.choices.none /\ \E i \in 1..Len(field.choices.items) : field.choices.items[i].n = n

ChoiceOf(field, n) ==
    field.choices.items[CHOOSE i \in 1..Len(field.choices.items) : field.choices.items[i].n = n].s

(***************************************************************************)
(* utils._encode_field / utils._decode_field                               *)
(***************************************************************************)
\* A variant that cuts the quotient toward zero (int() of the quotient).
to_integral_truncating(num, den) ==
    LET n == IF den < 0 THEN -num ELSE num
        d == IF den < 0 THEN -den ELSE den
    IN IF n < 0 THEN -((-n) \div d) ELSE n \div d

\* int(Decimal.to_integral()) under the default context: round half even.
\* num / den with den # 0; the 28-digit precision is exact at these sizes.
to_integral(num, den) ==
    LET n == IF den < 0 THEN -num ELSE num
        d == IF den < 0 THEN -den ELSE den
        q == n \div d
        r == n - q * d
    IN IF 2 * r < d THEN q
       ELSE IF 2 * r > d THEN q + 1
       ELSE IF q % 2 = 0 THEN q ELSE q + 1

\* The exception _encode_field raises for this field, or "none".
EncodeFieldError(field, data) ==
    IF field.name \notin DOMAIN data THEN "KeyError"
    ELSE IF IsStr(data[field.name]) /\ field.choices.none THEN "AttributeError"
    ELSE "none"

_encode_field(field, data, scaling) ==
    LET value == data[field.name] IN
    IF IsStr(value) THEN choice_string_to_number(field, value.s)
    ELSE IF scaling THEN Num(to_integral(value.n - field.offset, field.scale))
    ELSE value

_decode_field(field, value, decode_choices, scaling) ==
    IF decode_choices /\ HasChoice(field, value) THEN Str(ChoiceOf(field, value))
    ELSE IF scaling THEN Num(field.scale * value + field.offset)
    ELSE Num(value)

(***************************************************************************)
(* utils.encode_data / utils.decode_data                                   *)
(***************************************************************************)
RECURSIVE FirstFieldError(_, _)
FirstFieldError(fields, data) ==
    IF fields = <<>> THEN "none"
    ELSE IF EncodeFieldError(Head(fields), data) # "none"
         THEN EncodeFieldError(Head(fields), data)
         ELSE FirstFieldError(Tail(fields), data)

NoFields == [name \in {} |-> None]

\* Result: exc = "none" and packed = the union integer, or the exception;
\* unpacked is the dict of raw values handed to the packer.
encode_data(data, fields, formats, scaling) ==
    IF Len(fields) = 0 THEN [exc |-> "none", packed |-> {}, unpacked |-> NoFields]
    ELSE IF FirstFieldError(fields, data) # "none"
         THEN [exc |-> FirstFieldError(fields, data), packed |-> {}, unpacked |-> NoFields]
    ELSE LET unpacked == [name \in {fields[i].name : i \in 1..Len(fields)} |->
                            _encode_field(
                                fields[CHOOSE i \in 1..Len(fields) : fields[i].name = name],
                                data, scaling)]
             bigerr == PackError(formats.big_endian, unpacked)
             littleerr == PackError(formats.little_endian, unpacked)
         IN IF bigerr # "none" THEN [exc |-> bigerr, packed |-> {}, unpacked |-> unpacked]
            ELSE IF littleerr # "none"
            THEN [exc |-> littleerr, packed |-> {}, unpacked |-> unpacked]
            ELSE [exc |-> "none",
                  unpacked |-> unpacked,
                  packed |-> PackBits(formats.big_endian, unpacked)
                             \cup ReverseBytes(PackBits(formats.little_endian, unpacked),
                                               PackedBytes(formats.little_endian))]

\* Result: exc and the decoded dict as an insertion-ordered list of
\* (name, value) entries.
decode_data(data, fields, formats, decode_choices, scaling) ==
    IF UnpackFails(formats.big_endian, data) \/ UnpackFails(formats.little_endian, data)
    THEN [exc |-> "PackError", decoded |-> <<>>]
    ELSE LET raw(field) ==
                 IF HasItem(formats.little_endian, field.name)
                 THEN UnpackItem(formats.little_endian,
                                 ItemIndex(formats.little_endian, field.name), Reverse(data))
                 ELSE UnpackItem(formats.big_endian,
                                 ItemIndex(formats.big_endian, field.name), data)
         IN [exc |-> "none",
             decoded |-> [i \in 1..Len(fields) |->
                 [name |-> fields[i].name,
                  value |-> _decode_field(fields[i], raw(fields[i]), decode_choices, scaling)]]]

(***************************************************************************)
(* Signals.  A signal is a record                                          *)
(*   name, start, length, byte_order, is_signed, scale, offset,            *)
(*   minimum, maximum (None or Num), choices, is_multiplexer,              *)
(*   multiplexer_signal (a name or NoName), multiplexer_ids (a set),       *)
(*   start_value (the GenSigStartValue attribute: None or Num).            *)
(***************************************************************************)
NoName == ""

\* Signal.multiplexer_signal: the name of the selector this signal depends
\* on, None (NoName) for a root-level signal.
multiplexer_signal(signal) == signal.multiplexer_signal

\* Signal.multiplexer_ids: the selector values for which the signal is present.
multiplexer_ids(signal) == signal.multiplexer_ids

\* Signal.gen_sig_start_value -> AttributeMixin._get_attribute
gen_sig_start_value(signal) == signal.start_value

\* Message.get_signal_by_name: the first signal of that name.
get_signal_by_name(signals, name) ==
    signals[CHOOSE i \in 1..Len(signals) :
                signals[i].name = name /\ \A j \in 1..(i - 1) : signals[j].name # name]

RECURSIVE SortedSeq(_)
SortedSeq(S) ==
    IF S = {} THEN <<>>
    ELSE LET m == CHOOSE x \in S : \A y \in S : x <= y IN <<m>> \o SortedSeq(S \ {m})

(***************************************************************************)
(* Message._create_codec / Message._create_signal_tree                     *)
(***************************************************************************)
\* The selector values of the child signals alone.
children_ids_of_signals(signals, signal) ==
    UNION {multiplexer_ids(signals[i]) :
              i \in {j \in 1..Len(signals) : multiplexer_signal(signals[j]) = signal.name}}

children_ids(signals, signal) ==
    UNION {multiplexer_ids(signals[i]) :
              i \in {j \in 1..Len(signals) : multiplexer_signal(signals[j]) = signal.name}}
    \cup (IF ~signal.choices.none /\ signal.choices.items # <<>>
          THEN {signal.choices.items[i].n : i \in 1..Len(signal.choices.items)}
          ELSE {})

\* A codec node: signals, formats, multiplexers.  multiplexers is the dict in
\* insertion order: a list of (name, children), children: id -> codec node.
RECURSIVE _create_codec(_, _, _, _)
_create_codec(signals, length, parent_signal, multiplexer_id) ==
    LET here == SelectSeq(signals, LAMBDA signal :
                    /\ multiplexer_signal(signal) = parent_signal
                    /\ (IsNum(multiplexer_id) => multiplexer_id.n \in multiplexer_ids(signal)))
        muxes == SelectSeq(here, LAMBDA signal :
                    signal.is_multiplexer /\ children_ids(signals, signal) # {})
    IN [signals |-> here,
        formats |-> create_encode_decode_formats(here, length),
        multiplexers |-> [i \in 1..Len(muxes) |->
            [name |-> muxes[i].name,
             children |-> [child_id \in children_ids(signals, muxes[i]) |->
                              _create_codec(signals, length, muxes[i].name, Num(child_id))]]]]

HasMux(codec, name) == \E i \in 1..Len(codec.multiplexers) : codec.multiplexers[i].name = name

MuxOf(codec, name) ==
    codec.multiplexers[CHOOSE i \in 1..Len(codec.multiplexers) : codec.multiplexers[i].name = name]

\* A tree node is a plain signal name or a multiplexer with its branches.
RECURSIVE _create_signal_tree(_)
_create_signal_tree(codec) ==
    [i \in 1..Len(codec.signals) |->
        LET name == codec.signals[i].name IN
        IF HasMux(codec, name)
        THEN [mux |-> TRUE, name |-> name,
              children |-> [id \in DOMAIN MuxOf(codec, name).children |->
                              _create_signal_tree(MuxOf(codec, name).children[id])]]
        ELSE [mux |-> FALSE, name |-> name, children |-> <<>>]]

(***************************************************************************)
(* The overlap and fit validator: Message._check_signal, _check_mux,       *)
(* _check_signal_tree.  The state threaded through is the message_bits     *)
(* list (NoName = None) and the lines printed so far.                      *)
(***************************************************************************)
Nones(n) == [i \in 1..n |-> NoName]
Names(n, name) == [i \in 1..n |-> name]

\* for i in range(0, len(bits), 8): out = bits[i:i + 8] + out
RECURSIVE ReverseChunks(_)
ReverseChunks(bits) ==
    IF Len(bits) <= 8 THEN bits
    ELSE ReverseChunks(SubSeq(bits, 9, Len(bits))) \o SubSeq(bits, 1, 8)

SignalBits(signal, nbits) ==
    IF signal.byte_order = "big_endian"
    THEN Nones(start_bit(signal)) \o Names(signal.length, signal.name)
    ELSE LET signal_bits == Names(signal.length, signal.name) \o Nones(signal.start)
             reversed_signal_bits ==
                 IF Len(signal_bits) < nbits
                 THEN Nones(nbits - Len(signal_bits)) \o signal_bits
                 ELSE signal_bits
         IN ReverseChunks(reversed_signal_bits)

\* The marking loop from position `offset` on.
RECURSIVE MarkBits(_, _, _, _)
MarkBits(st, signal_bits, offset, name) ==
    IF offset > Len(signal_bits) THEN st
    ELSE IF signal_bits[offset] = NoName THEN MarkBits(st, signal_bits, offset + 1, name)
    ELSE IF st.bits[offset] # NoName
         THEN [bits |-> [i \in 1..Len(st.bits) |->
                            IF st.bits[i] = signal_bits[offset] THEN NoName ELSE st.bits[i]],
               report |-> Append(st.report,
                   [kind |-> "overlap", signal |-> name, other |-> st.bits[offset]])]
         ELSE MarkBits([st EXCEPT !.bits[offset] = name], signal_bits, offset + 1, name)

_check_signal(st, signal) ==
    LET signal_bits == SignalBits(signal, Len(st.bits)) IN
    IF Len(signal_bits) > Len(st.bits)
    THEN [st EXCEPT !.report = Append(@,
              [kind |-> "fit", signal |-> signal.name, other |-> NoName])]
    ELSE MarkBits(st, signal_bits, 1, signal.name)

RECURSIVE _check_signal_tree(_, _, _)
RECURSIVE _check_mux(_, _, _)
RECURSIVE CheckChildren(_, _, _, _, _)
RECURSIVE CheckChildren_running(_, _, _, _, _)

\* The loop with every child working on the bits the children before it
\* left behind.
CheckChildren_running(signals, st, children_message_bits, children, ids) ==
    IF ids = <<>> THEN st
    ELSE LET child == _check_signal_tree(signals, st, children[Head(ids)])
         IN CheckChildren_running(signals, child, children_message_bits, children, Tail(ids))

\* The loop over sorted(children): every child starts from the copy taken
\* after the multiplexer was marked; its non-None bits are written back.
CheckChildren(signals, st, children_message_bits, children, ids) ==
    IF ids = <<>> THEN st
    ELSE LET child == _check_signal_tree(signals,
                          [bits |-> children_message_bits, report |-> st.report],
                          children[Head(ids)])
             merged == [i \in 1..Len(st.bits) |->
                          IF child.bits[i] # NoName THEN child.bits[i] ELSE st.bits[i]]
         IN CheckChildren(signals, [bits |-> merged, report |-> child.report],
                          children_message_bits, children, Tail(ids))

_check_mux(signals, st, mux) ==
    LET marked == _check_signal(st, get_signal_by_name(signals, mux.name)) IN
    CheckChildren(signals, marked, marked.bits, mux.children, SortedSeq(DOMAIN mux.children))

_check_signal_tree(signals, st, signal_tree) ==
    IF signal_tree = <<>> THEN st
    ELSE LET node == Head(signal_tree)
             next == IF node.mux
                     THEN _check_mux(signals, st, node)
                     ELSE _check_signal(st, get_signal_by_name(signals, node.name))
         IN _check_signal_tree(signals, next, Tail(signal_tree))

\* Message._check_signal_lengths raises Error on a length <= 0.
_check_signal_lengths(signals) == \A i \in 1..Len(signals) : signals[i].length > 0

(***************************************************************************)
(* Message._check_signals_ranges_scaling / Message._check_signals          *)
(* Results carry exc ("none" or the exception class), why (which raise     *)
(* statement), signal (the signal the message names) and the caller's      *)
(* dict as the call left it.                                               *)
(***************************************************************************)
NoError(data) == [exc |-> "none", why |-> "", signal |-> NoName, data |-> data]

RECURSIVE _check_signals_ranges_scaling(_, _)
_check_signals_ranges_scaling(signals, data) ==
    IF signals = <<>> THEN NoError(data)
    ELSE LET signal == Head(signals)
             value == data[signal.name]
         IN IF IsStr(value) THEN _check_signals_ranges_scaling(Tail(signals), data)
            ELSE IF IsNum(signal.minimum) /\ value.n < signal.minimum.n
            THEN [exc |-> "EncodeError", why |-> "minimum", signal |-> signal.name, data |-> data]
            ELSE IF IsNum(signal.maximum) /\ value.n > signal.maximum.n
            THEN [exc |-> "EncodeError", why |-> "maximum", signal |-> signal.name, data |-> data]
            ELSE _check_signals_ranges_scaling(Tail(signals), data)

\* The first loop of _check_signals: fill in start values, raise on a
\* signal that has none.
RECURSIVE FillStartValues(_, _)
FillStartValues(signals, data) ==
    IF signals = <<>> THEN NoError(data)
    ELSE LET signal == Head(signals) IN
         IF signal.name \in DOMAIN data THEN FillStartValues(Tail(signals), data)
         ELSE IF IsNum(gen_sig_start_value(signal))
         THEN FillStartValues(Tail(signals),
                  [name \in DOMAIN data \cup {signal.name} |->
                      IF name = signal.name
                      THEN Num(gen_sig_start_value(signal).n + signal.offset)
                      ELSE data[name]])
         ELSE [exc |-> "EncodeError", why |-> "missing", signal |-> signal.name, data |-> data]

\* A variant that checks the ranges whether or not scaling is set.
_check_signals_always_ranges(signals, data, scaling) ==
    LET filled == FillStartValues(signals, data) IN
    IF filled.exc # "none" THEN filled
    ELSE _check_signals_ranges_scaling(signals, filled.data)

_check_signals(signals, data, scaling) ==
    LET filled == FillStartValues(signals, data) IN
    IF filled.exc # "none" THEN filled
    ELSE IF scaling THEN _check_signals_ranges_scaling(signals, filled.data)
    ELSE filled

(***************************************************************************)
(* Message._get_mux_number on the encoder's dict and on the decoder's      *)
(* ordered dict.                                                           *)
(***************************************************************************)
_get_mux_number(signals, mux, signal_name) ==
    IF IsStr(mux)
    THEN choice_string_to_number(get_signal_by_name(signals, signal_name), mux.s)
    ELSE mux

DictGet(decoded, name) ==
    decoded[CHOOSE i \in 1..Len(decoded) : decoded[i].name = name].value

\* dict.update: an existing key keeps its position, a new key is appended.
RECURSIVE DictUpdate(_, _)
DictUpdate(decoded, entries) ==
    IF entries = <<>> THEN decoded
    ELSE LET e == Head(entries)
             hit == {i \in 1..Len(decoded) : decoded[i].name = e.name}
         IN DictUpdate(
                IF hit = {} THEN Append(decoded, e)
                ELSE [i \in 1..Len(decoded) |-> IF i \in hit THEN e ELSE decoded[i]],
                Tail(entries))

(***************************************************************************)
(* Message._encode / Message.encode                                        *)
(* path records the traversal: one (multiplexer, branch id) entry per      *)
(* multiplexer branch entered, in order, also when the call then raises;   *)
(* raw collects the raw values handed to the packer on the way.            *)
(***************************************************************************)
\* A variant in which the KeyError of the branch lookup escapes as it is.
Fail_untranslated(exc, why, signal, data) ==
    [exc |-> IF why = "mux" THEN "KeyError" ELSE exc,
     why |-> why, signal |-> signal, data |-> data,
     encoded |-> {}, padding_mask |-> {}, path |-> <<>>, raw |-> [name \in {} |-> None]]

Fail(exc, why, signal, data) ==
    [exc |-> exc, why |-> why, signal |-> signal, data |-> data,
     encoded |-> {}, padding_mask |-> {}, path |-> <<>>, raw |-> NoFields]

Entered(acc, m, id, sub) == acc.path \o <<[name |-> m.name, id |-> id]>> \o sub.path

RECURSIVE _encode(_, _, _, _, _)
RECURSIVE EncodeMuxes(_, _, _, _, _)

\* The loop "for signal in multiplexers" of _encode.
EncodeMuxes(signals, multiplexers, acc, scaling, strict) ==
    IF multiplexers = <<>> THEN acc
    ELSE LET m == Head(multiplexers)
             mux == _get_mux_number(signals, acc.data[m.name], m.name)
         IN IF ~IsNum(mux) \/ mux.n \notin DOMAIN m.children
            THEN [Fail("EncodeError", "mux", m.name, acc.data) EXCEPT !.path = acc.path]
            ELSE LET sub == _encode(signals, m.children[mux.n], acc.data, scaling, strict) IN
                 IF sub.exc # "none" THEN [sub EXCEPT !.path = Entered(acc, m, mux.n, sub)]
                 ELSE EncodeMuxes(signals, Tail(multiplexers),
                          [exc |-> "none", why |-> "", signal |-> NoName,
                           data |-> sub.data,
                           encoded |-> acc.encoded \cup sub.encoded,
                           padding_mask |-> acc.padding_mask \cap sub.padding_mask,
                           path |-> Entered(acc, m, mux.n, sub),
                           raw |-> acc.raw @@ sub.raw],
                          scaling, strict)

_encode(signals, node, data, scaling, strict) ==
    LET checked == IF strict THEN _check_signals(node.signals, data, scaling)
                   ELSE NoError(data)
    IN IF checked.exc # "none"
       THEN Fail(checked.exc, checked.why, checked.signal, checked.data)
       ELSE LET enc == encode_data(checked.data, node.signals, node.formats, scaling) IN
            IF enc.exc # "none" THEN Fail(enc.exc, "field", NoName, checked.data)
            ELSE EncodeMuxes(signals, node.multiplexers,
                     [exc |-> "none", why |-> "", signal |-> NoName,
                      data |-> checked.data,
                      encoded |-> enc.packed,
                      padding_mask |-> node.formats.padding_mask,
                      path |-> <<>>,
                      raw |-> enc.unpacked],
                     scaling, strict)

\* hex(encoded)[4:] -> binascii.unhexlify -> [:length], on the integer with
\* the 0x80 marker byte set above the frame.
HexDigits(bits) == (Max(bits) \div 4) + 1

ByteAt(bits, low) == IntOf({b - low : b \in {x \in bits : low <= x /\ x <= low + 7}})

FrameBytes(encoded, length) ==
    LET marked == encoded \cup {8 * length + 7}
        digits == HexDigits(marked) - 2
        nbytes == digits \div 2
        kept == IF nbytes < length THEN nbytes ELSE length
    IN [exc |-> IF digits % 2 = 1 THEN "binascii.Error" ELSE "none",
        bytes |-> [i \in 1..kept |-> ByteAt(marked, 4 * digits - 8 * i)]]

\* Message.encode: the outcome, the frame, and the dict as the call left it.
encode(msg, data, scaling, padding, strict) ==
    LET r == _encode(msg.signals, msg.codecs, data, scaling, strict)
        encoded == IF padding THEN r.encoded \cup r.padding_mask ELSE r.encoded
        fb == FrameBytes(encoded, msg.length)
    IN IF r.exc # "none"
       THEN [status |-> "error", exc |-> r.exc, why |-> r.why, signal |-> r.signal,
             frame |-> <<>>, frame_id |-> 0, path |-> r.path, raw |-> NoFields,
             data |-> r.data]
       ELSE IF fb.exc # "none"
       THEN [status |-> "error", exc |-> fb.exc, why |-> "hex", signal |-> NoName,
             frame |-> <<>>, frame_id |-> 0, path |-> r.path, raw |-> NoFields,
             data |-> r.data]
       ELSE [status |-> "ok", exc |-> "none", why |-> "", signal |-> NoName,
             frame |-> fb.bytes, frame_id |-> msg.frame_id, path |-> r.path, raw |-> r.raw,
             data |-> r.data]

(***************************************************************************)
(* Message._decode / Message.decode                                        *)
(***************************************************************************)
RECURSIVE _decode(_, _, _, _, _)
RECURSIVE DecodeMuxes(_, _, _, _, _, _)

DecodeMuxes(signals, multiplexers, acc, data, decode_choices, scaling) ==
    IF multiplexers = <<>> THEN acc
    ELSE LET m == Head(multiplexers)
             mux == _get_mux_number(signals, DictGet(acc.decoded, m.name), m.name)
         IN IF ~IsNum(mux) \/ mux.n \notin DOMAIN m.children
            THEN [exc |-> "DecodeError", decoded |-> <<>>, path |-> acc.path]
            ELSE LET sub == _decode(signals, m.children[mux.n], data, decode_choices, scaling) IN
                 IF sub.exc # "none" THEN [sub EXCEPT !.path = Entered(acc, m, mux.n, sub)]
                 ELSE DecodeMuxes(signals, Tail(multiplexers),
                          [exc |-> "none",
                           decoded |-> DictUpdate(acc.decoded, sub.decoded),
                           path |-> Entered(acc, m, mux.n, sub)],
                          data, decode_choices, scaling)

_decode(signals, node, data, decode_choices, scaling) ==
    LET dec == decode_data(data, node.signals, node.formats, decode_choices, scaling) IN
    IF dec.exc # "none" THEN [exc |-> dec.exc, decoded |-> <<>>, path |-> <<>>]
    ELSE DecodeMuxes(signals, node.multiplexers,
             [exc |-> "none", decoded |-> dec.decoded, path |-> <<>>],
             data, decode_choices, scaling)

\* can_data.RXData(decoded): list(dict) keeps the keys of the dict, in order;
\* every entry of the result is a str object.
RXData(decoded) == [i \in 1..Len(decoded) |-> Str(decoded[i].name)]

\* RXData.__getitem__ with a str key: the loop reads entry.name of each entry
\* in turn; a str or int entry has no such attribute.
\* RXData.__contains__ with a str item: the same loop over the entries.
RXData_contains(self, item) ==
    IF self = <<>> THEN [exc |-> "none", value |-> FALSE]
    ELSE [exc |-> "AttributeError", value |-> FALSE]

RECURSIVE RXData_getitem(_, _)
RXData_getitem(self, item) ==
    IF self = <<>> THEN [exc |-> "KeyError", value |-> None]
    ELSE IF Head(self).k \in {"str", "num", "none"}
         THEN [exc |-> "AttributeError", value |-> None]
         ELSE RXData_getitem(Tail(self), item)

decode(msg, data, decode_choices, scaling) ==
    LET cut == SubSeq(data, 1, IF Len(data) < msg.length THEN Len(data) ELSE msg.length)
        r == _decode(msg.signals, msg.codecs, cut, decode_choices, scaling)
    IN IF r.exc # "none"
       THEN [status |-> "error", exc |-> r.exc, result |-> <<>>, frame_id |-> 0, path |-> r.path]
       ELSE [status |-> "ok", exc |-> "none", result |-> RXData(r.decoded),
             frame_id |-> msg.frame_id, path |-> r.path]

(***************************************************************************)
(* Message.refresh and Message.__init__                                    *)
(* strict is "None" (use the constructor's flag), "True" or "False".       *)
(* A message is a record name, length, frame_id, strict, signals, codecs,  *)
(* signal_tree; report holds the lines the validator printed.              *)
(***************************************************************************)
refresh(msg, strict) ==
    LET sorted == SortSignals(msg.signals)
        codecs == _create_codec(sorted, msg.length, NoName, None)
        tree == _create_signal_tree(codecs)
        do_check == IF strict = "None" THEN msg.strict ELSE strict = "True"
    IN IF ~_check_signal_lengths(sorted)
       THEN [msg |-> [msg EXCEPT !.signals = sorted],
             exc |-> "Error", checked |-> FALSE, report |-> <<>>]
       ELSE [msg |-> [msg EXCEPT !.signals = sorted, !.codecs = codecs, !.signal_tree = tree],
             exc |-> "none",
             checked |-> do_check,
             report |-> IF do_check
                        THEN _check_signal_tree(sorted,
                                 [bits |-> Nones(8 * msg.length), report |-> <<>>], tree).report
                        ELSE <<>>]

\* Message(parent, frame_id, name, length, signals, strict=strict)
NewMessage(name, frame_id, length, signals, strict) ==
    refresh([name |-> name, length |-> length, frame_id |-> frame_id, strict |-> strict,
             signals |-> signals, codecs |-> <<>>, signal_tree |-> <<>>], "None")

(***************************************************************************)
(* The messages the codec is exercised on.                                 *)
(***************************************************************************)
Sig(name, start, length, byte_order) ==
    [name |-> name, start |-> start, length |-> length, byte_order |-> byte_order,
     is_signed |-> FALSE, scale |-> 1, offset |-> 0, minimum |-> None, maximum |-> None,
     choices |-> NoChoices, is_multiplexer |-> FALSE, multiplexer_signal |-> NoName,
     multiplexer_ids |-> {}, start_value |-> None, receivers |-> {}]

Muxed(sig, parent, ids) == [sig EXCEPT !.multiplexer_signal = parent, !.multiplexer_ids = ids]

Selector(sig) == [sig EXCEPT !.is_multiplexer = TRUE]

\* Scaled root signals, one signed with a start value, one with bounds.
PlainSignals ==
    << [Sig("b", 0, 2, "little_endian") EXCEPT
            !.is_signed = TRUE, !.scale = 2, !.offset = 3, !.start_value = Num(1)],
       [Sig("a", 7, 3, "big_endian") EXCEPT !.scale = 2, !.offset = 1],
       [Sig("c", 4, 2, "big_endian") EXCEPT
            !.minimum = Num(1), !.maximum = Num(2),
            !.choices = Choices(<<[n |-> 0, s |-> "A"]>>)] >>

\* A plain selector: branch 0 holds x, branches 1 and 2 hold y.
MuxSignals ==
    << Selector(Sig("sel", 7, 2, "big_endian")),
       Muxed(Sig("y", 0, 3, "little_endian"), "sel", {1, 2}),
       Muxed([Sig("x", 5, 3, "big_endian") EXCEPT !.start_value = Num(2)], "sel", {0}) >>

\* A selector with a scale: physical = 2 * raw.
MuxScaledSignals ==
    << Selector([Sig("sel", 7, 2, "big_endian") EXCEPT !.scale = 2]),
       Muxed(Sig("x", 5, 3, "big_endian"), "sel", {1}),
       Muxed(Sig("y", 0, 3, "little_endian"), "sel", {2}) >>

\* A selector with choices; raw 2 and raw 3 share the string "B"; branch 3
\* exists through the choice key only and holds no signal.
MuxChoiceSignals ==
    << Selector([Sig("sel", 7, 2, "big_endian") EXCEPT
            !.choices = Choices(<<[n |-> 1, s |-> "A"], [n |-> 2, s |-> "B"],
                                  [n |-> 3, s |-> "B"]>>)]),
       Muxed(Sig("x", 5, 3, "big_endian"), "sel", {1}),
       Muxed(Sig("y", 0, 3, "little_endian"), "sel", {2}) >>

\* A multiplexer inside a branch of the root multiplexer.
NestedSignals ==
    << Selector(Sig("sel", 7, 2, "big_endian")),
       Selector(Muxed(Sig("sub", 5, 2, "big_endian"), "sel", {0})),
       Muxed(Sig("k", 0, 3, "little_endian"), "sub", {1}) >>

\* Two root signals sharing stream bits 2 and 3.
OverlapSignals ==
    << Sig("p", 7, 4, "big_endian"), Sig("q", 5, 4, "big_endian") >>

\* f needs stream bits 5..11 of an 8-bit frame.
MisfitSignals ==
    << Sig("f", 2, 7, "big_endian"), Sig("g", 0, 2, "little_endian") >>

\* Two bytes: a little-endian signal across the byte boundary next to a
\* big-endian one.
WideSignals ==
    << Sig("u", 4, 8, "little_endian"), Sig("v", 3, 4, "big_endian") >>

MessageArgs ==
    { [name |-> "Plain", frame_id |-> 256, length |-> 1, signals |-> PlainSignals, strict |-> TRUE],
      [name |-> "Mux", frame_id |-> 257, length |-> 1, signals |-> MuxSignals, strict |-> TRUE],
      [name |-> "MuxScaled", frame_id |-> 258, length |-> 1, signals |-> MuxScaledSignals, strict |-> TRUE],
      [name |-> "MuxChoice", frame_id |-> 259, length |-> 1, signals |-> MuxChoiceSignals, strict |-> TRUE],
      [name |-> "Nested", frame_id |-> 260, length |-> 1, signals |-> NestedSignals, strict |-> TRUE],
      [name |-> "Overlap", frame_id |-> 261, length |-> 1, signals |-> OverlapSignals, strict |-> TRUE],
      [name |-> "Misfit", frame_id |-> 262, length |-> 1, signals |-> MisfitSignals, strict |-> TRUE],
      [name |-> "Wide", frame_id |-> 263, length |-> 2, signals |-> WideSignals, strict |-> TRUE],
      [name |-> "Loose", frame_id |-> 264, length |-> 1, signals |-> MisfitSignals, strict |-> FALSE] }

\* The byte values of received frames: every byte for a one-byte message, a
\* few patterns per byte for a longer one.
ReceivedBytes(length) == IF length = 1 THEN 0..255 ELSE {0, 90, 165, 255}

ReceivedFrames(length) == [1..length -> ReceivedBytes(length)]

(***************************************************************************)
(* Frame identifiers (frame_id/__init__.py, j1939.py, gm_parameter_id.py). *)
(* An identifier object is its class name and its fields in constructor    *)
(* order; PyInt(n) is a plain Python int held where an object may be held.   *)
(***************************************************************************)
PyInt(n) == [kind |-> "int", f |-> <<n>>]

FrameId(frame_id) == [kind |-> "FrameId", f |-> <<frame_id>>]

J1939FrameId(priority, reserved, data_page, pdu_format, pdu_specific, source_address) ==
    [kind |-> "J1939FrameId",
     f |-> <<priority, reserved, data_page, pdu_format, pdu_specific, source_address>>]

GMParameterIdExtended(priority, parameter_id, source_id) ==
    [kind |-> "GMParameterIdExtended", f |-> <<priority, parameter_id, source_id>>]

GMParameterId(request_type, arbitration_id) ==
    [kind |-> "GMParameterId", f |-> <<request_type, arbitration_id>>]

NoObject == [kind |-> "NoneType", f |-> <<>>]

\* What a call on an identifier returns (an object or an int) or raises.
Returned(obj) == [exc |-> "none", obj |-> obj, n |-> 0]

ReturnedInt(n) == [exc |-> "none", obj |-> NoObject, n |-> n]

Raised(exc) == [exc |-> exc, obj |-> NoObject, n |-> 0]

\* bitstruct.pack of unsigned fields: the widths in order, most significant
\* field first; bitstruct.Error when a value does not fit its width.
RECURSIVE SumWidths(_)
SumWidths(widths) ==
    IF widths = <<>> THEN 0 ELSE widths[1] + SumWidths(Tail(widths))

pack_u_error(widths, values) ==
    \E i \in 1..Len(widths) : values[i] < 0 \/ values[i] >= 2 ^ widths[i]

RECURSIVE pack_u(_, _)
pack_u(widths, values) ==
    IF widths = <<>> THEN 0
    ELSE values[1] * 2 ^ SumWidths(Tail(widths)) + pack_u(Tail(widths), Tail(values))

\* bitstruct.unpack reading the fields least significant first.
RECURSIVE unpack_u_reversed(_, _)
unpack_u_reversed(widths, packed) ==
    IF widths = <<>> THEN <<>>
    ELSE <<packed % 2 ^ widths[1]>> \o unpack_u_reversed(Tail(widths), packed \div 2 ^ widths[1])

\* bitstruct.unpack of unsigned fields from a packed value.
RECURSIVE unpack_u(_, _)
unpack_u(widths, packed) ==
    IF widths = <<>> THEN <<>>
    ELSE <<packed \div 2 ^ SumWidths(Tail(widths))>>
         \o unpack_u(Tail(widths), packed % 2 ^ SumWidths(Tail(widths)))

J1939Widths == <<3, 1, 1, 8, 8, 8>>

\* J1939FrameId.from_frame_id(frame_id) without the range check.
J1939FrameId_from_frame_id_unchecked(frame_id) ==
    Returned([kind |-> "J1939FrameId", f |-> unpack_u(J1939Widths, frame_id % 2 ^ 29)])

\* J1939FrameId.from_frame_id(frame_id)
J1939FrameId_from_frame_id(frame_id) ==
    IF pack_u_error(<<29>>, <<frame_id>>) THEN Raised("Error")
    ELSE Returned([kind |-> "J1939FrameId",
                   f |-> unpack_u(J1939Widths, pack_u(<<29>>, <<frame_id>>))])

\* J1939FrameId.frame_id
J1939FrameId_frame_id(self) ==
    IF pack_u_error(J1939Widths, self.f) THEN Raised("Error")
    ELSE ReturnedInt(unpack_u(<<29>>, pack_u(J1939Widths, self.f))[1])

\* J1939FrameId.pgn, with the guard on PDU1 frames left out.
J1939FrameId_pgn_unguarded(self) ==
    IF pack_u_error(<<1, 1, 8, 8>>, SubSeq(self.f, 2, 5)) THEN Raised("Error")
    ELSE ReturnedInt(unpack_u(<<18>>, pack_u(<<1, 1, 8, 8>>, SubSeq(self.f, 2, 5)))[1])

\* J1939FrameId.pgn
J1939FrameId_pgn(self) ==
    IF self.f[4] < 240 /\ self.f[5] # 0 THEN Raised("Error")
    ELSE IF pack_u_error(<<1, 1, 8, 8>>, SubSeq(self.f, 2, 5)) THEN Raised("Error")
    ELSE ReturnedInt(unpack_u(<<18>>, pack_u(<<1, 1, 8, 8>>, SubSeq(self.f, 2, 5)))[1])

\* GMParameterIdExtended.from_frame_id(frame_id), reading parameter_id one
\* bit too low.
GMParameterIdExtended_from_frame_id_shifted(frame_id) ==
    Returned(GMParameterIdExtended((frame_id \div 2 ^ 26) % 8,
                                   (frame_id \div 2 ^ 12) % 8192,
                                   frame_id % 8192))

\* GMParameterIdExtended.from_frame_id(frame_id)
GMParameterIdExtended_from_frame_id(frame_id) ==
    Returned(GMParameterIdExtended((frame_id \div 2 ^ 26) % 8,
                                   (frame_id \div 2 ^ 13) % 8192,
                                   frame_id % 8192))

\* GMParameterIdExtended.frame_id
GMParameterIdExtended_frame_id(self) ==
    ReturnedInt((((self.f[1] % 8) * 2 ^ 13 + (self.f[2] % 8192)) * 2 ^ 13)
                + (self.f[3] % 8192))

\* GMParameterId.from_frame_id(frame_id)
GMParameterId_from_frame_id(frame_id) ==
    Returned(GMParameterId((frame_id \div 2 ^ 8) % 256, frame_id % 256))

\* GMParameterId.frame_id; request_type << 8 | arbitration_id on fields that
\* from_frame_id or the constructor's callers keep within eight bits.
GMParameterId_frame_id(self) == ReturnedInt(self.f[1] * 2 ^ 8 + self.f[2])

\* FrameId.frame_id
FrameId_frame_id(self) == ReturnedInt(self.f[1])

\* obj.frame_id for an identifier object of any class.
frame_id_of(self) ==
    CASE self.kind = "FrameId" -> FrameId_frame_id(self)
      [] self.kind = "J1939FrameId" -> J1939FrameId_frame_id(self)
      [] self.kind = "GMParameterIdExtended" -> GMParameterIdExtended_frame_id(self)
      [] self.kind = "GMParameterId" -> GMParameterId_frame_id(self)
      [] OTHER -> Raised("AttributeError")

\* hex(n)[2:].upper() as its digits, most significant first (n >= 0).
RECURSIVE hex_digits(_)
hex_digits(n) ==
    IF n < 16 THEN <<n>> ELSE Append(hex_digits(n \div 16), n % 16)

\* str.zfill(width) on a string of digits.
RECURSIVE zfill(_, _)
zfill(digits, width) ==
    IF Len(digits) >= width THEN digits ELSE zfill(<<0>> \o digits, width)

\* FrameId.hex: the digits that follow the "0x" prefix.
FrameId_hex(self) ==
    IF self.f[1] > 2047 THEN zfill(hex_digits(self.f[1]), 8)
    ELSE zfill(hex_digits(self.f[1]), 3)

\* obj.hex for an identifier object of any class: only FrameId defines it.
hex_of(self) ==
    IF self.kind = "FrameId" THEN [exc |-> "none", digits |-> FrameId_hex(self)]
    ELSE [exc |-> "AttributeError", digits |-> <<>>]

\* cls.from_frame_id(frame_id) for an identifier class given by name.
from_frame_id(cls, frame_id) ==
    CASE cls = "FrameId" -> Returned(FrameId(frame_id))
      [] cls = "J1939FrameId" -> J1939FrameId_from_frame_id(frame_id)
      [] cls = "GMParameterIdExtended" -> GMParameterIdExtended_from_frame_id(frame_id)
      [] cls = "GMParameterId" -> GMParameterId_from_frame_id(frame_id)

(***************************************************************************)
(* The database attributes, the nodes and the message's frame-id slot.     *)
(*   db    record use_gm_parameter_ids, protocol_type (None when the       *)
(*         attribute is not set)                                           *)
(*   self  record _frame_id (an int or an identifier object),              *)
(*         _is_extended_frame                                              *)
(*   node  record name, tp_tx_indentfier (None when not set)               *)
(***************************************************************************)
Node(name, tp_tx_indentfier) == [name |-> name, tp_tx_indentfier |-> tp_tx_indentfier]

\* Database.nodes
Nodes ==
    { Node("ECU1", Num(37)), Node("ECU2", None), Node("ECU3", Num(300)),
      Node("TOOL", Num(5)) }

\* Message._senders
Senders == {"ECU1", "ECU2", "ECU3"}

\* Message.senders
senders == {node \in Nodes : node.name \in Senders}

\* Message.__init__: the check of the frame id against the frame format.
RECURSIVE bit_length(_)
bit_length(n) ==
    IF n < 0 THEN bit_length(-n) ELSE IF n = 0 THEN 0 ELSE 1 + bit_length(n \div 2)

Message_init_error(frame_id, is_extended_frame) ==
    IF is_extended_frame THEN bit_length(frame_id) > 29 ELSE bit_length(frame_id) > 11

\* Message.frame_id read again from the integer on every access.
Message_frame_id_retyping(self, db) ==
    LET n == IF self._frame_id.kind = "int" THEN self._frame_id.f[1]
             ELSE frame_id_of(self._frame_id).n
        made == IF db.use_gm_parameter_ids
                THEN IF self._is_extended_frame
                     THEN GMParameterIdExtended_from_frame_id(n)
                     ELSE GMParameterId_from_frame_id(n)
                ELSE IF db.protocol_type # None /\ db.protocol_type = Str("J1939")
                THEN J1939FrameId_from_frame_id(n)
                ELSE Returned(FrameId(n))
    IN [exc |-> made.exc, obj |-> made.obj,
        self |-> IF made.exc = "none" THEN [self EXCEPT !._frame_id = made.obj] ELSE self]

\* Message.frame_id (getter): what it returns or raises, and the message
\* afterwards.
Message_frame_id(self, db) ==
    IF self._frame_id.kind = "int"
    THEN LET n == self._frame_id.f[1]
             made == IF db.use_gm_parameter_ids
                     THEN IF self._is_extended_frame
                          THEN GMParameterIdExtended_from_frame_id(n)
                          ELSE GMParameterId_from_frame_id(n)
                     ELSE IF db.protocol_type # None /\ db.protocol_type = Str("J1939")
                     THEN J1939FrameId_from_frame_id(n)
                     ELSE Returned(FrameId(n))
         IN [exc |-> made.exc, obj |-> made.obj,
             self |-> IF made.exc = "none" THEN [self EXCEPT !._frame_id = made.obj]
                      ELSE self]
    ELSE [exc |-> "none", obj |-> self._frame_id, self |-> self]

\* TXData.set_sending_node(node) that leaves the identifier alone.
TXData_set_sending_node_skipped(_frame_id, node) == _frame_id

\* TXData.set_sending_node(node): the identifier object afterwards.
TXData_set_sending_node(_frame_id, node) ==
    IF node.tp_tx_indentfier # None
    THEN IF _frame_id.kind = "J1939FrameId"
         THEN [_frame_id EXCEPT !.f[6] = node.tp_tx_indentfier.n]
         ELSE IF _frame_id.kind = "GMParameterIdExtended"
         THEN [_frame_id EXCEPT !.f[3] = node.tp_tx_indentfier.n]
         ELSE _frame_id
    ELSE _frame_id

\* TXData.frame_id_hex
TXData_frame_id_hex(_frame_id) == hex_of(_frame_id)

\* TXData.frame_id: int(self._frame_id)
TXData_frame_id(_frame_id) == frame_id_of(_frame_id)

\* The last statements of Message.encode, data.frame_id = self.frame_id and
\* return data, given r, what the codec made of the caller's dict: the
\* result, the identifier object the frame carries and the message afterwards.
Message_encode(r, self, db) ==
    IF r.status # "ok"
    THEN [r |-> r, _frame_id |-> NoObject, self |-> self, before |-> NoObject]
    ELSE IF Message_frame_id(self, db).exc # "none"
    THEN [r |-> [r EXCEPT !.status = "error", !.exc = Message_frame_id(self, db).exc,
                          !.frame = <<>>],
          _frame_id |-> NoObject, self |-> self, before |-> NoObject]
    ELSE [r |-> [r EXCEPT !.frame_id = TXData_frame_id(Message_frame_id(self, db).obj).n],
          _frame_id |-> Message_frame_id(self, db).obj,
          self |-> Message_frame_id(self, db).self,
          before |-> Message_frame_id(self, db).obj]

\* Database.get_message(frame_id_or_name) by name, in a database that holds
\* the one message: TRUE when it is found, KeyError otherwise.
get_message(msg, name) == name = msg.name

\* Node.encode(frame_id_or_name, data, scaling, padding, strict), given m,
\* what message.encode returns or raises on data.  The frame carries the very
\* object the message holds, so set_sending_node changes the message's frame
\* id too.
Node_encode(node, name, msg, self, data, m) ==
    IF ~get_message(msg, name) \/ node \notin senders
    THEN [r |-> [status |-> "error", exc |-> "KeyError", why |-> "", signal |-> NoName,
                 frame |-> <<>>, frame_id |-> 0, path |-> <<>>, raw |-> NoFields,
                 data |-> data],
          _frame_id |-> NoObject, self |-> self, before |-> NoObject]
    ELSE IF m.r.status # "ok"
    THEN m
    ELSE [r |-> [m.r EXCEPT !.frame_id =
                     TXData_frame_id(TXData_set_sending_node(m._frame_id, node)).n],
          _frame_id |-> TXData_set_sending_node(m._frame_id, node),
          self |-> [m.self EXCEPT !._frame_id = TXData_set_sending_node(m._frame_id, node)],
          before |-> m._frame_id]

(***************************************************************************)
(* Database (database.py), Message.receivers, Node.decode, RXData writes.  *)
(* A Message object is a record oid (its identity), name, frame_id,        *)
(* _parent ("None" or "db"), signal_tree and report (the tree its last     *)
(* refresh built, the lines it printed).                                   *)
(* The Database is a record objects (oid -> Message object), _messages     *)
(* (list of oids), _name_to_message and _frame_id_to_message (dicts to     *)
(* oids), _strict, and the history of the changes made to the database     *)
(* since it was constructed: edits (their number), last (the last one) and *)
(* renamed (the message renamed last, its old name and the message that    *)
(* name resolved to at that time).                                         *)
(***************************************************************************)
To(sig, receivers) == [sig EXCEPT !.receivers = receivers]

\* Scenario S1: the OBDII request.
TXSignals ==
    << To(Sig("length_tx", 7, 8, "big_endian"), {"ECU1"}),
       To(Sig("mode", 15, 4, "big_endian"), {"ECU1", "ECU2"}),
       Sig("pid", 23, 8, "big_endian") >>

\* Branches 0 and 1 of sel share stream bits 2..4; the root signal r, checked
\* after sel, claims stream bits 4 and 5.
SharedSignals ==
    << Selector(Sig("sel", 7, 2, "big_endian")),
       To(Muxed(Sig("x", 5, 3, "big_endian"), "sel", {0}), {"ECU1"}),
       Muxed(Sig("y", 5, 3, "big_endian"), "sel", {1}),
       To(Sig("r", 3, 2, "big_endian"), {"TOOL"}) >>

\* The root signal h is checked before sel; x of branch 0 claims a bit of
\* sel, z of branch 1 claims the bit of h.
OnMuxSignals ==
    << Sig("h", 7, 1, "big_endian"),
       Muxed(Sig("z", 7, 1, "big_endian"), "sel", {1}),
       Selector(Sig("sel", 6, 2, "big_endian")),
       To(Muxed(Sig("x", 5, 2, "big_endian"), "sel", {0}), {"ECU3"}) >>

\* A nested multiplexer, and a multiplexer without children or choices.
LoneSignals ==
    NestedSignals \o << Selector(Sig("lone", 1, 1, "big_endian")) >>

\* The Message objects, by oid.
DbMessageArgs ==
    << [name |-> "TX", frame_id |-> 2015, length |-> 8, signals |-> TXSignals],
       [name |-> "Shared", frame_id |-> 256, length |-> 1, signals |-> SharedSignals],
       [name |-> "OnMux", frame_id |-> 256, length |-> 1, signals |-> OnMuxSignals],
       [name |-> "Shared", frame_id |-> 300, length |-> 1, signals |-> MuxChoiceSignals],
       [name |-> "Lone", frame_id |-> 301, length |-> 1, signals |-> LoneSignals] >>

Oids == 1..Len(DbMessageArgs)

\* Message(None, frame_id, name, length, signals, strict=True)
Made ==
    [oid \in Oids |->
        NewMessage(DbMessageArgs[oid].name, DbMessageArgs[oid].frame_id,
                   DbMessageArgs[oid].length, DbMessageArgs[oid].signals, TRUE)]

\* The Message objects as constructed: the signals, sorted, and the codecs
\* stay as Made has them, since no call below changes a signal.
DbObjects ==
    [oid \in Oids |->
        [oid |-> oid, name |-> Made[oid].msg.name, frame_id |-> Made[oid].msg.frame_id,
         _parent |-> "None",
         signal_tree |-> Made[oid].msg.signal_tree, report |-> Made[oid].report]]

\* The message an object stands for: what the constructor made, under the
\* name the object has now.
MessageOf(self, oid) == [Made[oid].msg EXCEPT !.name = self.objects[oid].name]

\* frame_id & self._frame_id_mask with a mask of `bits` one bits: the default
\* 0xffffffff keeps every id a message can have.
FrameIdMaskBits == 32

masked_frame_id(frame_id, bits) == IF bits >= 31 THEN frame_id ELSE frame_id % (2 ^ bits)

NoTable == [key \in {} |-> 0]

DictSet(dict, key, value) ==
    [k \in DOMAIN dict \cup {key} |-> IF k = key THEN value ELSE dict[k]]

\* Database._add_message: res is the oid of the message that was overwritten,
\* 0 for True.
_add_message(self, oid) ==
    LET msg == self.objects[oid]
        by_name == msg.name \in DOMAIN self._name_to_message
        masked == masked_frame_id(msg.frame_id, FrameIdMaskBits)
        by_id == masked \in DOMAIN self._frame_id_to_message
    IN [self |-> [self EXCEPT
                    !._name_to_message = DictSet(@, msg.name, oid),
                    !._frame_id_to_message = DictSet(@, masked, oid)],
        res |-> IF by_id THEN self._frame_id_to_message[masked]
                ELSE IF by_name THEN self._name_to_message[msg.name]
                ELSE 0]

\* message._parent = self; message.refresh(self._strict)
Adopt(self, oid) ==
    LET r == refresh(MessageOf(self, oid), IF self._strict THEN "True" ELSE "False") IN
    [self EXCEPT !.objects[oid] = [@ EXCEPT !._parent = "db",
                                            !.signal_tree = r.msg.signal_tree,
                                            !.report = r.report]]

\* list.remove(x): the first occurrence goes.
RECURSIVE ListRemove(_, _)
ListRemove(list, x) ==
    IF list = <<>> THEN <<>>
    ELSE IF Head(list) = x THEN Tail(list)
    ELSE <<Head(list)>> \o ListRemove(Tail(list), x)

\* The messages setter: database.messages = value.
RECURSIVE Database_messages_setter(_, _)
Database_messages_setter(self, value) ==
    IF value = <<>> THEN self
    ELSE LET added == _add_message(self, Head(value))
             listed == IF added.res = 0
                       THEN Append(added.self._messages, Head(value))
                       ELSE Append(ListRemove(added.self._messages, added.res), Head(value))
         IN Database_messages_setter(
                Adopt([added.self EXCEPT !._messages = listed], Head(value)), Tail(value))

\* The loop of Database.refresh over self._messages.
RECURSIVE RefreshMessages(_, _)
RefreshMessages(self, oids) ==
    IF oids = <<>> THEN self
    ELSE RefreshMessages(_add_message(Adopt(self, Head(oids)), Head(oids)).self, Tail(oids))

\* Database.refresh without its first two statements: the tables keep what
\* they hold.
Database_refresh_keeping(self) == RefreshMessages(self, self._messages)

Database_refresh(self) ==
    RefreshMessages([self EXCEPT !._name_to_message = NoTable,
                                 !._frame_id_to_message = NoTable],
                    self._messages)

NoRenamed == [oid |-> 0, old |-> "", was |-> 0]

\* Database(messages=messages, nodes=Nodes, strict=strict)
Database_init(objects, messages, strict) ==
    Database_refresh([objects |-> objects, _messages |-> messages,
                      _name_to_message |-> NoTable, _frame_id_to_message |-> NoTable,
                      _strict |-> strict, edits |-> 0, last |-> "refresh",
                      renamed |-> NoRenamed])

\* message.name = value
Message_name_setter(self, oid, value) == [self EXCEPT !.objects[oid].name = value]

\* Database.get_message(frame_id_or_name): the oid found, 0 for KeyError.  A
\* str is looked up in the name table, an int is compared with the frame id
\* of every message of the list and the first match is returned.
Database_get_message(self, frame_id_or_name) ==
    IF IsStr(frame_id_or_name)
    THEN IF frame_id_or_name.s \in DOMAIN self._name_to_message
         THEN self._name_to_message[frame_id_or_name.s] ELSE 0
    ELSE LET res == SelectSeq(self._messages, LAMBDA oid :
                        self.objects[oid].frame_id = frame_id_or_name.n)
         IN IF Len(res) > 0 THEN res[1] ELSE 0

\* Signal.receivers: the Node objects of the database whose name is listed.
Signal_receivers(nodes, signal) == {node \in nodes : node.name \in signal.receivers}

\* A Python object with its type, for comparisons across types.
Obj(type, v) == [type |-> type, v |-> v]

\* `item in objs` for objects without __eq__ of their own: equal objects
\* have the same type.
py_in(item, objs) == \E o \in objs : o.type = item.type /\ o.v = item.v

\* Message.receivers: the set collects Node objects, the filter looks the
\* node's name up in it.
Message_receivers(nodes, msg) ==
    LET receivers == {Obj("Node", node) :
                         node \in UNION {Signal_receivers(nodes, msg.signals[i]) :
                                            i \in 1..Len(msg.signals)}}
    IN {node \in nodes : py_in(Obj("str", node.name), receivers)}

\* Node.decode(frame_id_or_name, data, decode_choices, scaling), given r, what
\* message.decode returns or raises on data; oid is what get_message found.
Node_decode(node, nodes, oid, msg, r) ==
    IF oid = 0 \/ node \notin Message_receivers(nodes, msg)
    THEN [r EXCEPT !.status = "error", !.exc = "KeyError", !.result = <<>>, !.frame_id = 0]
    ELSE r

\* RXData.__setitem__(key, value): an int key writes the position; a str key
\* reads entry.name of each entry in turn and appends when none matches.
RECURSIVE RXData_setitem_scan(_)
RXData_setitem_scan(entries) ==
    IF entries = <<>> THEN "append"
    ELSE IF Head(entries).k \in {"str", "num", "none"} THEN "AttributeError"
    ELSE RXData_setitem_scan(Tail(entries))

RXData_setitem(self, key, value) ==
    IF IsNum(key)
    THEN IF key.n < Len(self)
         THEN [exc |-> "none", self |-> [self EXCEPT ![key.n + 1] = value]]
         ELSE [exc |-> "IndexError", self |-> self]
    ELSE IF RXData_setitem_scan(self) = "append"
         THEN [exc |-> "none", self |-> Append(self, value)]
         ELSE [exc |-> "AttributeError", self |-> self]

\* RXData.__getitem__(item): an int item reads the position.
RXData_getitem_any(self, item) ==
    IF IsNum(item)
    THEN IF item.n < Len(self)
         THEN [exc |-> "none", value |-> self[item.n + 1]]
         ELSE [exc |-> "IndexError", value |-> None]
    ELSE RXData_getitem(self, item.s)

(***************************************************************************)
(* State.                                                                  *)
(*   message   the Message object (signals, cached codec tree, ...)        *)
(*   built     outcome of the last constructor / refresh call              *)
(*   data      the caller's input dict (Message.encode writes into it)     *)
(*   tx        the last Message.encode / Node.encode call (input is the    *)
(*             dict as it was passed in) and what it returned or raised;   *)
(*             path and raw are the branches it entered and the raw values *)
(*             it packed, _frame_id the identifier object of the frame,    *)
(*             node and name the node it was called on and the message     *)
(*             name it was given, before the identifier as the message     *)
(*             held it ahead of set_sending_node                           *)
(*   rx        the last Message.decode call and what it returned or raised *)
(*   database  the attributes UseGMParameterIDs and ProtocolType           *)
(*   ident     the message's _frame_id and _is_extended_frame              *)
(*   got       the last call on an identifier class or object              *)
(*   dbase     a Database object with the Message objects it was given     *)
(*   ret       the last call on that Database, on one of its nodes or on   *)
(*             the RXData it returned                                      *)
(***************************************************************************)
VARIABLES message, built, data, tx, rx, database, ident, got, dbase, ret

vars == <<message, built, data, tx, rx, database, ident, got, dbase, ret>>

EmptyDict == [name \in {} |-> None]

NoTx ==
    [status |-> "none", exc |-> "none", why |-> "", signal |-> NoName, frame |-> <<>>,
     frame_id |-> 0, path |-> <<>>, raw |-> NoFields, input |-> EmptyDict,
     scaling |-> FALSE, padding |-> FALSE, strict |-> FALSE,
     _frame_id |-> NoObject, node |-> "", name |-> "", before |-> NoObject]

NoRx ==
    [status |-> "none", exc |-> "none", result |-> <<>>, frame_id |-> 0, path |-> <<>>,
     frame |-> <<>>, decode_choices |-> FALSE, scaling |-> FALSE, of_tx |-> FALSE]

SignalNames(msg) == {msg.signals[i].name : i \in 1..Len(msg.signals)}

Unread == [exc |-> "unread", obj |-> NoObject, n |-> 0]

UnreadHex == [exc |-> "unread", digits |-> <<>>]

NoGot ==
    [op |-> "", cls |-> "", arg |-> 0, made |-> Unread, frame_id |-> Unread,
     pgn |-> Unread, hex |-> UnreadHex, db |-> <<>>, was |-> NoObject]

\* No Database object: the caller works on the message alone.
NoDatabase ==
    [objects |-> <<>>, _messages |-> <<>>, _name_to_message |-> NoTable,
     _frame_id_to_message |-> NoTable, _strict |-> TRUE, edits |-> 0, last |-> "",
     renamed |-> NoRenamed]

NoRet ==
    [op |-> "", key |-> None, oid |-> 0, node |-> "", status |-> "none", exc |-> "none",
     frame |-> <<>>, frame_id |-> 0, result |-> <<>>, input |-> EmptyDict,
     padding |-> FALSE, value |-> None, before |-> <<>>, read |-> [exc |-> "unread", value |-> None]]

\* A database without UseGMParameterIDs and ProtocolType, to which the
\* message has been added: Database._add_message has read message.frame_id.
Init ==
    \E args \in MessageArgs :
        LET made == NewMessage(args.name, args.frame_id, args.length, args.signals, args.strict) IN
        /\ made.exc = "none"
        /\ message = made.msg
        /\ built = [exc |-> made.exc, checked |-> made.checked, report |-> made.report]
        /\ data = EmptyDict
        /\ tx = NoTx
        /\ rx = NoRx
        /\ database = [use_gm_parameter_ids |-> FALSE, protocol_type |-> None]
        /\ ident = [_frame_id |-> FrameId(args.frame_id), _is_extended_frame |-> FALSE]
        /\ got = NoGot
        /\ dbase = NoDatabase
        /\ ret = NoRet

\* The caller writes data[name] = value while preparing an encode call.
SetItem ==
    /\ tx = NoTx
    /\ rx = NoRx
    /\ \E name \in SignalNames(message), value \in Values :
          data' = [n \in DOMAIN data \cup {name} |-> IF n = name THEN value ELSE data[n]]
    /\ UNCHANGED <<message, built, tx, rx, database, ident, got, dbase, ret>>

TxOf(r, input, scaling, padding, strict, _frame_id, node, name, before) ==
    [status |-> r.status, exc |-> r.exc, why |-> r.why, signal |-> r.signal,
     frame |-> r.frame, frame_id |-> r.frame_id, path |-> r.path,
     raw |-> r.raw, input |-> input, scaling |-> scaling, padding |-> padding,
     strict |-> strict, _frame_id |-> _frame_id, node |-> node, name |-> name,
     before |-> before]

\* message.encode(data, scaling, padding, strict) on the dict the caller
\* prepared.
Encode ==
    /\ got.op # "from_frame_id"
    /\ tx = NoTx
    /\ rx = NoRx
    /\ \E scaling \in BOOLEAN, padding \in BOOLEAN, strict \in BOOLEAN :
       \E r \in {encode(message, data, scaling, padding, strict)} :
       \E m \in {Message_encode(r, ident, database)} :
          /\ tx' = TxOf(m.r, data, scaling, padding, strict, m._frame_id, "", "", m.before)
          /\ data' = m.r.data
          /\ ident' = m.self
    /\ UNCHANGED <<message, built, rx, database, got, dbase, ret>>

RxOf(r, frame, decode_choices, scaling, of_tx) ==
    [status |-> r.status, exc |-> r.exc, result |-> r.result, frame_id |-> r.frame_id,
     path |-> r.path, frame |-> frame, decode_choices |-> decode_choices,
     scaling |-> scaling, of_tx |-> of_tx]

\* message.decode(frame, decode_choices, scaling) on the frame encode returned.
DecodeTx ==
    /\ tx.status = "ok"
    /\ tx.node = ""
    /\ rx = NoRx
    /\ \E decode_choices \in BOOLEAN, scaling \in BOOLEAN :
       \E r \in {decode(message, tx.frame, decode_choices, scaling)} :
          rx' = RxOf(r, tx.frame, decode_choices, scaling, TRUE)
    /\ UNCHANGED <<message, built, data, tx, database, ident, got, dbase, ret>>

\* message.decode(frame, decode_choices, scaling) on a frame received from
\* the bus, by a caller that has no encode call in progress.
Decode ==
    /\ data = EmptyDict
    /\ tx = NoTx
    /\ rx = NoRx
    /\ \E frame \in ReceivedFrames(message.length), decode_choices \in BOOLEAN,
          scaling \in BOOLEAN :
       \E r \in {decode(message, frame, decode_choices, scaling)} :
          rx' = RxOf(r, frame, decode_choices, scaling, FALSE)
    /\ UNCHANGED <<message, built, data, tx, database, ident, got, dbase, ret>>

Next ==
    \/ SetItem
    \/ Encode
    \/ DecodeTx
    \/ Decode

Spec == Init /\ [][Next]_vars

(***************************************************************************)
(* The frame identifiers: a message constructed in a database whose        *)
(* attributes UseGMParameterIDs and ProtocolType take any value, its       *)
(* frame id read and assigned, frames encoded by the message and by the    *)
(* nodes, and the identifier classes called directly.                      *)
(***************************************************************************)
PrioritySamples == {0, 6, 7}

PduFormatSamples == {0, 238, 239, 240, 255}

PduSpecificSamples == {0, 1, 255}

SourceAddressSamples == {0, 37, 255}

\* Frame ids within 29 bits: every combination of the sampled J1939 fields,
\* and 0x0C1D2000.
FrameIdSamples ==
    { pack_u(J1939Widths, <<p, r, d, pf, ps, sa>>) :
          p \in PrioritySamples, r \in {0, 1}, d \in {0, 1}, pf \in PduFormatSamples,
          ps \in PduSpecificSamples, sa \in SourceAddressSamples }
    \cup {203235328}

\* Integers that are not 29-bit frame ids.
OutsideSamples == {-1, 2 ^ 29, 2 ^ 29 + 37, 2 ^ 30}

Classes == {"FrameId", "J1939FrameId", "GMParameterIdExtended", "GMParameterId"}

\* The constructor arguments frame_id, is_extended_frame of the message:
\* 0x18EEFF00, 0x18F00425, 0x0C1D2000 extended and 0x123, 0x7FF standard.
MessageIds ==
    { <<418316032, TRUE>>, <<418382885, TRUE>>, <<203235328, TRUE>>,
      <<291, FALSE>>, <<2047, FALSE>> }

ProtocolTypes == {Str("J1939"), Str("CANopen")}

\* A dict the message "Plain" encodes, and the empty dict it rejects.
IdData == {EmptyDict, [name \in {"a", "b", "c"} |-> Num(1)]}

IdInit ==
    \E args \in {a \in MessageArgs : a.name = "Plain"}, id \in MessageIds :
        LET made == NewMessage(args.name, id[1], args.length, args.signals, args.strict) IN
        /\ made.exc = "none"
        /\ ~Message_init_error(id[1], id[2])
        /\ message = made.msg
        /\ built = [exc |-> made.exc, checked |-> made.checked, report |-> made.report]
        /\ data \in IdData
        /\ tx = NoTx
        /\ rx = NoRx
        /\ database \in [use_gm_parameter_ids : BOOLEAN,
                         protocol_type : {None} \cup ProtocolTypes]
        /\ ident = [_frame_id |-> PyInt(id[1]), _is_extended_frame |-> id[2]]
        /\ got = NoGot
        /\ dbase = NoDatabase
        /\ ret = NoRet

\* database.use_gm_parameter_ids = value
SetUseGM ==
    /\ got.op # "from_frame_id"
    /\ tx = NoTx
    /\ \E value \in BOOLEAN :
          database' = [database EXCEPT !.use_gm_parameter_ids = value]
    /\ UNCHANGED <<message, built, data, tx, rx, ident, got, dbase, ret>>

\* database.protocol_type = value
SetProtocolType ==
    /\ got.op # "from_frame_id"
    /\ tx = NoTx
    /\ \E value \in ProtocolTypes :
          database' = [database EXCEPT !.protocol_type = value]
    /\ UNCHANGED <<message, built, data, tx, rx, ident, got, dbase, ret>>

\* message.frame_id (read)
ReadFrameId ==
    /\ got.op # "from_frame_id"
    /\ \E r \in {Message_frame_id(ident, database)} :
          /\ ident' = r.self
          /\ got' = [NoGot EXCEPT !.op = "Message.frame_id",
                                  !.made = [exc |-> r.exc, obj |-> r.obj, n |-> 0],
                                  !.db = <<database>>, !.was = ident._frame_id]
    /\ UNCHANGED <<message, built, data, tx, rx, database, dbase, ret>>

\* message.frame_id = value, for the integer the message was constructed with
AssignFrameId ==
    /\ got.op # "from_frame_id"
    /\ tx = NoTx
    /\ \E value \in {message.frame_id} :
          ident' = [ident EXCEPT !._frame_id = PyInt(value)]
    /\ UNCHANGED <<message, built, data, tx, rx, database, got, dbase, ret>>

\* node.encode(name, data, scaling, padding, strict)
NodeEncode ==
    /\ got.op # "from_frame_id"
    /\ tx = NoTx
    /\ rx = NoRx
    /\ \E node \in Nodes, name \in {message.name, "Missing"},
          scaling \in BOOLEAN, padding \in BOOLEAN, strict \in BOOLEAN :
       \E r \in {encode(message, data, scaling, padding, strict)} :
       \E m \in {Node_encode(node, name, message, ident, data,
                             Message_encode(r, ident, database))} :
          /\ tx' = TxOf(m.r, data, scaling, padding, strict, m._frame_id, node.name, name,
                        m.before)
          /\ data' = m.r.data
          /\ ident' = m.self
    /\ UNCHANGED <<message, built, rx, database, got, dbase, ret>>

\* frame.frame_id_hex and frame.frame_id on the frame encode returned
ReadFrameIdHex ==
    /\ got.op # "from_frame_id"
    /\ tx.status = "ok"
    /\ got' = [NoGot EXCEPT !.op = "TXData.frame_id_hex",
                            !.hex = TXData_frame_id_hex(tx._frame_id),
                            !.frame_id = TXData_frame_id(tx._frame_id),
                            !.was = tx._frame_id]
    /\ UNCHANGED <<message, built, data, tx, rx, database, ident, dbase, ret>>

\* cls.from_frame_id(frame_id), and frame_id, pgn and hex read on the object
\* it returned, by a caller that uses the identifier classes alone
FromFrameId ==
    /\ got = NoGot
    /\ tx = NoTx
    /\ \E cls \in Classes, frame_id \in FrameIdSamples \cup OutsideSamples :
       \E made \in {from_frame_id(cls, frame_id)} :
          got' = [NoGot EXCEPT
                     !.op = "from_frame_id", !.cls = cls, !.arg = frame_id, !.made = made,
                     !.frame_id = IF made.exc = "none" THEN frame_id_of(made.obj) ELSE Unread,
                     !.pgn = IF made.exc = "none" /\ cls = "J1939FrameId"
                             THEN J1939FrameId_pgn(made.obj) ELSE Unread,
                     !.hex = IF made.exc = "none" THEN hex_of(made.obj) ELSE UnreadHex]
    /\ UNCHANGED <<message, built, data, tx, rx, database, ident, dbase, ret>>

IdNext ==
    \/ SetUseGM
    \/ SetProtocolType
    \/ ReadFrameId
    \/ AssignFrameId
    \/ Encode
    \/ NodeEncode
    \/ ReadFrameIdHex
    \/ FromFrameId

IdSpec == IdInit /\ [][IdNext]_vars

(***************************************************************************)
(* The database: Message objects constructed on their own, a Database      *)
(* constructed on some of them, messages added through the messages        *)
(* setter, renamed and refreshed, and the calls of the lookup, encode and  *)
(* decode entry points of the Database and of its nodes.                   *)
(***************************************************************************)
MaxMessages == 2

\* The number of changes (messages added, renamed, refreshes) a database
\* goes through before it is used.
MaxEdits == 2

\* The lists of distinct Message objects a Database is constructed on.
MessageLists ==
    {<<>>} \cup {<<a>> : a \in Oids}
           \cup ({<<a, b>> : a \in Oids, b \in Oids} \ {<<a, a>> : a \in Oids})

NewNames == {"Renamed", "Shared"}

\* The keys of the lookups: message names, old and new, and frame ids.
Keys ==
    {Str(DbMessageArgs[oid].name) : oid \in Oids} \cup {Str(n) : n \in NewNames}
    \cup {Num(DbMessageArgs[oid].frame_id) : oid \in Oids} \cup {Num(512)}

\* Scenario S1, and the all-zero dict of any other message.
DbInput(msg) ==
    IF msg.name = "TX" /\ msg.length = 8
    THEN [name \in {"length_tx", "mode", "pid"} |->
             IF name = "length_tx" THEN Num(2) ELSE IF name = "mode" THEN Num(1) ELSE Num(13)]
    ELSE [name \in SignalNames(msg) |-> Num(0)]

\* Received buffers: shorter than the message, of its length, and longer.
DbFrames(length) ==
    IF length = 1
    THEN {<<>>, <<0>>, <<64>>, <<255>>, <<64, 255>>}
    ELSE {[i \in 1..n |-> IF i = 1 THEN 2 ELSE IF i = 2 THEN 16 ELSE IF i = 3 THEN 13
                          ELSE IF i > length THEN 255 ELSE 0] :
             n \in {length - 1, length, length + 1}}

codecVars == <<message, built, data, tx, rx, database, ident, got>>

DbInit ==
    /\ message = Made[1].msg
    /\ built = [exc |-> "none", checked |-> TRUE, report |-> Made[1].report]
    /\ data = EmptyDict
    /\ tx = NoTx
    /\ rx = NoRx
    /\ database = [use_gm_parameter_ids |-> FALSE, protocol_type |-> None]
    /\ ident = [_frame_id |-> FrameId(Made[1].msg.frame_id), _is_extended_frame |-> FALSE]
    /\ got = NoGot
    /\ \E messages \in MessageLists : dbase = Database_init(DbObjects, messages, TRUE)
    /\ ret = NoRet

\* database.messages = [message], for a message not yet in the database.
SetMessages ==
    /\ ret = NoRet
    /\ dbase.edits < MaxEdits
    /\ Len(dbase._messages) < MaxMessages
    /\ \E oid \in Oids :
          /\ \A i \in 1..Len(dbase._messages) : dbase._messages[i] # oid
          /\ dbase' = [Database_messages_setter(dbase, <<oid>>) EXCEPT
                          !.edits = @ + 1, !.last = "setter"]
    /\ UNCHANGED <<codecVars, ret>>

\* message.name = value, for a message of the database.
Rename ==
    /\ ret = NoRet
    /\ \E i \in 1..Len(dbase._messages), value \in NewNames :
          /\ dbase.objects[dbase._messages[i]].name # value
          /\ dbase.edits < MaxEdits
          /\ dbase' = [Message_name_setter(dbase, dbase._messages[i], value) EXCEPT
                          !.edits = @ + 1, !.last = "rename",
                          !.renamed = [oid |-> dbase._messages[i],
                                       old |-> dbase.objects[dbase._messages[i]].name,
                                       was |-> Database_get_message(dbase,
                                                   Str(dbase.objects[dbase._messages[i]].name))]]
    /\ UNCHANGED <<codecVars, ret>>

\* database.refresh()
Refresh ==
    /\ ret = NoRet
    /\ dbase.edits < MaxEdits
    /\ dbase' = [Database_refresh(dbase) EXCEPT !.edits = @ + 1, !.last = "refresh"]
    /\ UNCHANGED <<codecVars, ret>>

\* database.get_message(key)
GetMessage ==
    /\ ret = NoRet
    /\ \E key \in Keys :
       \E oid \in {Database_get_message(dbase, key)} :
          ret' = [NoRet EXCEPT !.op = "get_message", !.key = key, !.oid = oid,
                     !.status = IF oid = 0 THEN "error" ELSE "ok",
                     !.exc = IF oid = 0 THEN "KeyError" ELSE "none"]
    /\ UNCHANGED <<codecVars, dbase>>

\* database.encode_message(key, data, padding=padding)
EncodeMessage ==
    /\ ret = NoRet
    /\ \E key \in Keys, padding \in BOOLEAN :
       \E oid \in {Database_get_message(dbase, key)} :
          IF oid = 0
          THEN ret' = [NoRet EXCEPT !.op = "encode_message", !.key = key,
                          !.status = "error", !.exc = "KeyError"]
          ELSE \E msg \in {MessageOf(dbase, oid)} :
               \E input \in {DbInput(msg)} :
               \E r \in {encode(msg, input, TRUE, padding, TRUE)} :
                  ret' = [NoRet EXCEPT !.op = "encode_message", !.key = key, !.oid = oid,
                             !.status = r.status, !.exc = r.exc, !.frame = r.frame,
                             !.frame_id = IF r.status = "ok"
                                          THEN TXData_frame_id(FrameId(r.frame_id)).n ELSE 0,
                             !.input = input, !.padding = padding]
    /\ UNCHANGED <<codecVars, dbase>>

\* database.decode_message(key, frame)
DecodeMessage ==
    /\ ret = NoRet
    /\ \E key \in Keys :
       \E oid \in {Database_get_message(dbase, key)} :
          IF oid = 0
          THEN ret' = [NoRet EXCEPT !.op = "decode_message", !.key = key,
                          !.status = "error", !.exc = "KeyError"]
          ELSE \E msg \in {MessageOf(dbase, oid)} :
               \E frame \in DbFrames(msg.length) :
               \E r \in {decode(msg, frame, TRUE, TRUE)} :
                  ret' = [NoRet EXCEPT !.op = "decode_message", !.key = key, !.oid = oid,
                             !.status = r.status, !.exc = r.exc, !.frame = frame,
                             !.frame_id = r.frame_id, !.result = r.result]
    /\ UNCHANGED <<codecVars, dbase>>

\* node.decode(key, frame) for a node of the database.
NodeDecode ==
    /\ ret = NoRet
    /\ \E node \in Nodes, key \in Keys :
       \E oid \in {Database_get_message(dbase, key)} :
          IF oid = 0
          THEN ret' = [NoRet EXCEPT !.op = "node_decode", !.key = key, !.node = node.name,
                          !.status = "error", !.exc = "KeyError"]
          ELSE \E msg \in {MessageOf(dbase, oid)} :
               \E frame \in {[i \in 1..msg.length |-> 0]} :
               \E r \in {decode(msg, frame, TRUE, TRUE)} :
               \E d \in {Node_decode(node, Nodes, oid, msg, r)} :
                  ret' = [NoRet EXCEPT !.op = "node_decode", !.key = key, !.oid = oid,
                             !.node = node.name, !.status = d.status, !.exc = d.exc,
                             !.frame = frame, !.frame_id = d.frame_id, !.result = d.result]
    /\ UNCHANGED <<codecVars, dbase>>

\* result[key] = value on the RXData decode_message returned, then
\* result[key] read back.
SetResult ==
    /\ ret.op = "decode_message"
    /\ ret.status = "ok"
    /\ \E key \in {Num(0), Str("new")}
                  \cup {Str(ret.result[i].s) : i \in 1..Len(ret.result)} :
       \E w \in {RXData_setitem(ret.result, key, Num(7))} :
          ret' = [ret EXCEPT !.op = "setitem", !.key = key, !.value = Num(7),
                     !.before = ret.result, !.exc = w.exc,
                     !.status = IF w.exc = "none" THEN "ok" ELSE "error",
                     !.result = w.self,
                     !.read = IF w.exc = "none" THEN RXData_getitem_any(w.self, key)
                              ELSE [exc |-> "unread", value |-> None]]
    /\ UNCHANGED <<codecVars, dbase>>

DbNext ==
    \/ SetMessages
    \/ Rename
    \/ Refresh
    \/ GetMessage
    \/ EncodeMessage
    \/ DecodeMessage
    \/ NodeDecode
    \/ SetResult

DbSpec == DbInit /\ [][DbNext]_vars

(***************************************************************************)
(* The DBC layout of a signal, read off its start, length and byte_order   *)
(* (signal.py): the stream position of each of its bits and the raw        *)
(* integer a frame holds for it.  Independent of the compiled formats.     *)
(***************************************************************************)
\* Stream position of bit k (0 = least significant) of the signal.
BitPosition(signal, k) ==
    IF signal.byte_order = "big_endian"
    THEN start_bit(signal) + signal.length - 1 - k
    ELSE 8 * ((signal.start + k) \div 8) + 7 - ((signal.start + k) % 8)

BitPositions(signal) == {BitPosition(signal, k) : k \in 0..(signal.length - 1)}

FieldValue(frame, signal) ==
    LET u == IntOf({k \in 0..(signal.length - 1) : StreamBit(frame, BitPosition(signal, k)) = 1})
    IN IF signal.is_signed /\ u >= 2^(signal.length - 1) THEN u - 2^signal.length ELSE u

\* The (selector, ids) conditions under which a signal is present: its own
\* and those of every multiplexer above it.
RECURSIVE Chain(_, _, _)
Chain(signals, signal, depth) ==
    IF multiplexer_signal(signal) = NoName \/ depth = 0 THEN {}
    ELSE {[sel |-> multiplexer_signal(signal), ids |-> multiplexer_ids(signal)]}
         \cup Chain(signals, get_signal_by_name(signals, multiplexer_signal(signal)), depth - 1)

Conditions(msg, signal) == Chain(msg.signals, signal, Len(msg.signals))

\* Two signals that some frame of the message holds together.
CoPresent(msg, s, t) ==
    \A c \in Conditions(msg, s), d \in Conditions(msg, t) :
        c.sel = d.sel => c.ids \cap d.ids # {}

\* Every signal lies inside the frame and no two co-present signals share a bit.
WellFormed(msg) ==
    /\ \A s \in Range(msg.signals) : BitPositions(s) \subseteq 0..(8 * msg.length - 1)
    /\ \A s, t \in Range(msg.signals) :
           (s.name # t.name /\ CoPresent(msg, s, t)) => BitPositions(s) \cap BitPositions(t) = {}

\* The signals of the nodes a traversal entered: the root node and one node
\* per (multiplexer, id) entry of its path.
EnteredSignals(msg, path) ==
    {s \in Range(msg.signals) :
        \/ multiplexer_signal(s) = NoName
        \/ \E i \in 1..Len(path) :
              path[i].name = multiplexer_signal(s) /\ path[i].id \in multiplexer_ids(s)}

\* The signals whose every selector holds, in the frame, one of their ids.
SelectedByFrame(msg, frame) ==
    {s \in Range(msg.signals) :
        \A c \in Conditions(msg, s) :
            FieldValue(frame, get_signal_by_name(msg.signals, c.sel)) \in c.ids}

ChoiceStringsOf(signal) ==
    IF signal.choices.none THEN {}
    ELSE {signal.choices.items[i].s : i \in 1..Len(signal.choices.items)}

\* The number a selector's entry of an input dict stands for.
InputKey(msg, D, sel) ==
    IF sel \notin DOMAIN D THEN None
    ELSE IF IsStr(D[sel]) /\ D[sel].s \notin ChoiceStringsOf(get_signal_by_name(msg.signals, sel))
    THEN None
    ELSE _get_mux_number(msg.signals, D[sel], sel)

\* The signals on the active path of an input dict: root signals and the
\* signals of the branches its selector entries pick.
ActiveIn(msg, D) ==
    {s \in Range(msg.signals) :
        \A c \in Conditions(msg, s) :
            IsNum(InputKey(msg, D, c.sel)) /\ InputKey(msg, D, c.sel).n \in c.ids}

Abs(n) == IF n < 0 THEN -n ELSE n

\* n / d cut toward zero.
Truncated(n, d) ==
    IF (n < 0) = (d < 0) THEN Abs(n) \div Abs(d) ELSE -(Abs(n) \div Abs(d))

\* r is the integer nearest n / d, the even one when two are equally near.
NearestEven(r, n, d) ==
    /\ 2 * Abs(n - r * d) <= Abs(d)
    /\ 2 * Abs(n - r * d) = Abs(d) => r % 2 = 0


(***************************************************************************)
(* Properties                                                              *)
(***************************************************************************)
\* C1: encoding a dict of numeric values (strict, scaling) and decoding the
\* frame with scaling and without choice decoding gives back the dict: the
\* result has every signal of the dict under its name with the value given.
C1_RoundTrip ==
    (/\ tx.status = "ok" /\ tx.strict /\ tx.scaling
     /\ \A name \in DOMAIN tx.input : IsNum(tx.input[name])
     /\ rx.of_tx /\ rx.scaling /\ ~rx.decode_choices)
    => /\ rx.status = "ok"
       /\ \A name \in DOMAIN tx.input :
              RXData_getitem(rx.result, name) = [exc |-> "none", value |-> tx.input[name]]

\* C2: a message whose strict construction or refresh completed has every
\* signal inside the frame and no two co-present signals sharing a bit.
C2_StrictRejectsOverlap ==
    (built.checked /\ built.exc = "none") => WellFormed(message)

\* C3 as stated: with scaling, the raw value packed for a numeric value v
\* is (v - offset) / scale cut toward zero.
C3_Truncates ==
    (tx.status = "ok" /\ tx.scaling)
    => \A s \in EnteredSignals(message, tx.path) :
           IsNum(data[s.name])
           => tx.raw[s.name] = Num(Truncated(data[s.name].n - s.offset, s.scale))

\* C3 amended: with scaling, the raw value packed for a numeric value v is
\* the integer nearest (v - offset) / scale, the even one at a tie.
C3_RoundsHalfEven ==
    (tx.status = "ok" /\ tx.scaling)
    => \A s \in EnteredSignals(message, tx.path) :
           IsNum(data[s.name])
           => /\ IsNum(tx.raw[s.name])
              /\ NearestEven(tx.raw[s.name].n, data[s.name].n - s.offset, s.scale)

\* 1.5 was packed as 2 and -1.5 as -2.
C3_Witness ==
    /\ message.name = "Plain" /\ tx.status = "ok" /\ tx.scaling
    /\ data["a"] = Num(4) /\ tx.raw["a"] = Num(2)
    /\ data["b"] = Num(0) /\ tx.raw["b"] = Num(-2)

\* C4: whatever the flags, an encode whose input lacks a value for a signal
\* on the active path that has no start value raises EncodeError and
\* returns no frame.
C4_MissingRaisesEncodeError ==
    (/\ tx.status # "none"
     /\ \E s \in ActiveIn(message, tx.input) :
            s.name \notin DOMAIN tx.input /\ ~IsNum(gen_sig_start_value(s)))
    => tx.status = "error" /\ tx.exc = "EncodeError" /\ tx.frame = <<>>

OutOfRange(signal, value) ==
    \/ IsNum(signal.minimum) /\ value.n < signal.minimum.n
    \/ IsNum(signal.maximum) /\ value.n > signal.maximum.n

\* C5: with strict and scaling, a numeric value below the minimum or above
\* the maximum of a signal of a node the encoder enters makes encode raise
\* EncodeError; a range error names a signal whose numeric value lies
\* strictly outside the bound it reports, and is raised only with strict
\* and scaling both set, so bounds themselves, strings, and calls without
\* scaling or without strict are never rejected for range.
C5_StrictRange ==
    /\ (/\ tx.status # "none" /\ tx.strict /\ tx.scaling
        /\ \E s \in EnteredSignals(message, tx.path) :
               /\ s.name \in DOMAIN data
               /\ IsNum(data[s.name])
               /\ OutOfRange(s, data[s.name]))
       => tx.status = "error" /\ tx.exc = "EncodeError" /\ tx.frame = <<>>
    /\ tx.why \in {"minimum", "maximum"}
       => /\ tx.strict /\ tx.scaling /\ tx.exc = "EncodeError"
          /\ \E s \in EnteredSignals(message, tx.path) :
                 /\ s.name = tx.signal
                 /\ IsNum(data[s.name])
                 /\ tx.why = "minimum" => data[s.name].n < s.minimum.n
                 /\ tx.why = "maximum" => data[s.name].n > s.maximum.n

\* A value above the maximum was rejected, naming the signal.
C5_Witness ==
    /\ message.name = "Plain" /\ tx.strict /\ tx.scaling
    /\ tx.exc = "EncodeError" /\ tx.why = "maximum" /\ tx.signal = "c"
    /\ tx.input["c"] = Num(3)

\* C6: an encode given, for a signal on the active path, a string that is
\* not one of the signal's choice strings raises EncodeError.
C6_UnknownStringRaisesEncodeError ==
    (/\ tx.status # "none"
     /\ \E s \in ActiveIn(message, tx.input) :
            /\ s.name \in DOMAIN tx.input
            /\ IsStr(tx.input[s.name])
            /\ tx.input[s.name].s \notin ChoiceStringsOf(s))
    => tx.status = "error" /\ tx.exc = "EncodeError"

\* C7: a decode returns values for exactly the root signals and the signals
\* of the branches that the selector values held by the frame select.
C7_DecodeSelectsByFrame ==
    rx.status = "ok"
    => /\ {rx.result[i].s : i \in 1..Len(rx.result)}
              = {s.name : s \in SelectedByFrame(message, rx.frame)}
       /\ \A s \in SelectedByFrame(message, rx.frame) :
              RXData_getitem(rx.result, s.name).exc = "none"

\* A value the encoder can pack for the signal.
Encodable(signal, D, scaling) ==
    /\ signal.name \in DOMAIN D
    /\ IsStr(D[signal.name]) => D[signal.name].s \in ChoiceStringsOf(signal)
    /\ IsNum(_encode_field(signal, D, scaling))
    /\ FieldFits(data_item(signal), _encode_field(signal, D, scaling).n)

IsSelector(msg, signal) == signal.is_multiplexer /\ children_ids(msg.signals, signal) # {}

\* The selector value the decoder obtains from a frame.
DecodedKey(msg, frame, signal, decode_choices, scaling) ==
    _get_mux_number(msg.signals,
        _decode_field(signal, FieldValue(frame, signal), decode_choices, scaling),
        signal.name)

C9_EncodeBranchByRaw ==
    (tx.status = "ok" /\ tx.scaling)
    => \A i \in 1..Len(tx.path) : tx.raw[tx.path[i].name] = Num(tx.path[i].id)

\* C10: every branch a decode enters is the branch of the raw value the
\* frame holds for the selector, whatever decode_choices and scaling are.
C10_DecodeBranchByRaw ==
    rx.status = "ok"
    => \A i \in 1..Len(rx.path) :
           rx.path[i].id
               = FieldValue(rx.frame, get_signal_by_name(message.signals, rx.path[i].name))


\* The frame bits claimed by the signals of the nodes a traversal entered.
ClaimedBits(msg, path) ==
    UNION {BitPositions(s) : s \in EnteredSignals(msg, path)} \cap 0..(8 * msg.length - 1)

\* Every signal of the message lies inside the frame.
InFrame(msg) ==
    \A s \in Range(msg.signals) : BitPositions(s) \subseteq 0..(8 * msg.length - 1)

PaddingLaw ==
    /\ \A p \in (0..(8 * message.length - 1)) \ ClaimedBits(message, tx.path) :
           StreamBit(tx.frame, p) = IF tx.padding THEN 1 ELSE 0
    /\ \E other \in {encode(message, tx.input, tx.scaling, ~tx.padding, tx.strict)} :
           /\ other.status = "ok"
           /\ \A p \in ClaimedBits(message, tx.path) :
                  StreamBit(other.frame, p) = StreamBit(tx.frame, p)

encode_RXData(msg, rxdata, scaling, padding, strict) ==
    IF msg.codecs.signals = <<>>
    THEN [status |-> encode(msg, EmptyDict, scaling, padding, strict).status,
          exc |-> encode(msg, EmptyDict, scaling, padding, strict).exc,
          frame |-> encode(msg, EmptyDict, scaling, padding, strict).frame]
    ELSE LET name == msg.codecs.signals[1].name
             exc == IF strict THEN RXData_contains(rxdata, name).exc
                    ELSE RXData_getitem(rxdata, name).exc
         IN [status |-> "error", exc |-> exc, frame |-> <<>>]

\* C12: when an input with choice strings encodes to a frame B, encoding
\* what decode(B, decode_choices=True) returns gives B again.
C12_ReencodeThroughChoices ==
    (/\ tx.status = "ok"
     /\ \E name \in DOMAIN tx.input : IsStr(tx.input[name])
     /\ rx.of_tx /\ rx.decode_choices /\ rx.scaling = tx.scaling)
    => /\ rx.status = "ok"
       /\ \E again \in {encode_RXData(message, rx.result, tx.scaling, tx.padding, tx.strict)} :
              again.status = "ok" /\ again.frame = tx.frame

\* C13: after an encode, successful or not, the caller's dict has exactly
\* the keys and values it had before the call.
C13_EncodeLeavesInput ==
    tx.status # "none" => data = tx.input

(***************************************************************************)
(* Frame identifiers.                                                      *)
(***************************************************************************)
\* Bits hi..lo of n, bit 0 the least significant.
Bits(n, hi, lo) == (n \div 2 ^ lo) % 2 ^ (hi - lo + 1)

FromJ1939 == got.op = "from_frame_id" /\ got.cls = "J1939FrameId"

\* C14: J1939FrameId.from_frame_id(f) for f in 0..0x1FFFFFFF has priority =
\* bits 28..26, reserved = bit 25, data_page = bit 24, pdu_format = bits
\* 23..16, pdu_specific = bits 15..8, source_address = bits 7..0, and its
\* frame_id packs back to f; for every f outside that range it raises Error.
C14_J1939Layout ==
    FromJ1939 =>
        IF got.arg >= 0 /\ got.arg <= 536870911
        THEN /\ got.made.exc = "none"
             /\ got.made.obj =
                    J1939FrameId(Bits(got.arg, 28, 26), Bits(got.arg, 25, 25),
                                 Bits(got.arg, 24, 24), Bits(got.arg, 23, 16),
                                 Bits(got.arg, 15, 8), Bits(got.arg, 7, 0))
             /\ got.frame_id = ReturnedInt(got.arg)
        ELSE got.made.exc = "Error"

C14_Witness ==
    /\ FromJ1939
    /\ got.arg = 536870911
    /\ got.made.obj = J1939FrameId(7, 1, 1, 255, 255, 255)
    /\ got.frame_id = ReturnedInt(536870911)

\* (reserved << 17) | (data_page << 16) | (pdu_format << 8) | pdu_specific
PgnOf(self) == self.f[2] * 2 ^ 17 + self.f[3] * 2 ^ 16 + self.f[4] * 2 ^ 8 + self.f[5]

\* C15: with pdu_format >= 240, pgn = (reserved << 17) | (data_page << 16) |
\* (pdu_format << 8) | pdu_specific; with pdu_format < 240 and pdu_specific
\* # 0 reading pgn raises Error; with pdu_format < 240 and pdu_specific = 0
\* the same formula holds.
C15_PgnLaw ==
    (FromJ1939 /\ got.made.exc = "none") =>
        IF got.made.obj.f[4] < 240 /\ got.made.obj.f[5] # 0
        THEN got.pgn.exc = "Error"
        ELSE got.pgn = ReturnedInt(PgnOf(got.made.obj))

C15_Witness ==
    /\ FromJ1939
    /\ got.made.obj = J1939FrameId(6, 0, 0, 240, 1, 37)
    /\ got.pgn = ReturnedInt(61441)

\* C16 as stated: from_frame_id(0x18EEFF00) has fields (6, 0, 0, 238, 255, 0)
\* and its pgn evaluates to 0x0EE00.
C16_ScenarioS4 ==
    (FromJ1939 /\ got.arg = 418316032) =>
        /\ got.made.obj = J1939FrameId(6, 0, 0, 238, 255, 0)
        /\ got.pgn = ReturnedInt(60928)

\* C16: from_frame_id(0x18EEFF00) has fields (6, 0, 0, 238, 255, 0), and
\* reading its pgn raises Error, pdu_format 238 being below 240 with
\* pdu_specific 255.
C16_ScenarioS4Raises ==
    (FromJ1939 /\ got.arg = 418316032) =>
        /\ got.made.obj = J1939FrameId(6, 0, 0, 238, 255, 0)
        /\ got.pgn.exc = "Error"

C16_Witness ==
    /\ FromJ1939
    /\ got.arg = 418316032
    /\ got.made.exc = "none"
    /\ got.pgn.exc # "unread"

FromGMExtended == got.op = "from_frame_id" /\ got.cls = "GMParameterIdExtended"

\* C17 as stated: GMParameterIdExtended.from_frame_id(0x0C1D2000) has
\* (priority, parameter_id, source_id) = (3, 0x0E90, 0x0000), priority being
\* bits 28..26, parameter_id bits 25..13 and source_id bits 12..0, and
\* converts back to 0x0C1D2000.
C17_ScenarioS5 ==
    (FromGMExtended /\ got.arg = 203235328) =>
        /\ got.made.obj = GMParameterIdExtended(3, 3728, 0)
        /\ got.made.obj = GMParameterIdExtended(Bits(got.arg, 28, 26), Bits(got.arg, 25, 13),
                                                Bits(got.arg, 12, 0))
        /\ got.frame_id = ReturnedInt(203235328)

\* C17: GMParameterIdExtended.from_frame_id(0x0C1D2000) has (priority,
\* parameter_id, source_id) = (3, 0x00E9, 0x0000), priority being bits
\* 28..26, parameter_id bits 25..13 and source_id bits 12..0, and converts
\* back to 0x0C1D2000.
C17_ScenarioS5Fields ==
    (FromGMExtended /\ got.arg = 203235328) =>
        /\ got.made.obj = GMParameterIdExtended(3, 233, 0)
        /\ got.made.obj = GMParameterIdExtended(Bits(got.arg, 28, 26), Bits(got.arg, 25, 13),
                                                Bits(got.arg, 12, 0))
        /\ got.frame_id = ReturnedInt(203235328)

C17_Witness ==
    /\ FromGMExtended
    /\ got.arg = 203235328
    /\ got.made.exc = "none"
    /\ got.frame_id.exc = "none"

\* The hex presentation of n: 3 digits up to 0x7FF, 8 digits above.
HexWidth(n) == IF n <= 2047 THEN 3 ELSE 8

\* C18: every frame-id variant has a hex presentation, of 3 hex digits up to
\* 0x7FF and of 8 above, so reading frame_id_hex on a frame that encode
\* returned succeeds whatever the variant.
C18_EveryVariantHasHex ==
    /\ (got.op = "from_frame_id" /\ got.made.exc = "none" /\ got.frame_id.exc = "none") =>
           /\ got.hex.exc = "none"
           /\ Len(got.hex.digits) = HexWidth(got.frame_id.n)
    /\ (got.op = "TXData.frame_id_hex") =>
           /\ got.hex.exc = "none"
           /\ got.frame_id.exc = "none" => Len(got.hex.digits) = HexWidth(got.frame_id.n)

\* The variant the database attributes select for a message.
SelectedVariant(db, is_extended_frame) ==
    IF db.use_gm_parameter_ids
    THEN IF is_extended_frame THEN "GMParameterIdExtended" ELSE "GMParameterId"
    ELSE IF db.protocol_type = Str("J1939") THEN "J1939FrameId" ELSE "FrameId"

\* C19: the variant is selected on the first read of Message.frame_id, from
\* the attributes as they are at that moment (GM extended with the GM
\* attribute on an extended frame, GM standard with it on a standard frame,
\* else J1939 with protocol type "J1939", else raw); later reads return the
\* same variant though the attributes change, until frame_id is assigned an
\* integer.
C19_VariantChosenOnce ==
    [][/\ (got' # got /\ got'.op = "Message.frame_id") =>
              IF ident._frame_id.kind = "int"
              THEN /\ got'.made.obj.kind =
                          SelectedVariant(database, ident._is_extended_frame)
                   /\ frame_id_of(got'.made.obj) = ReturnedInt(ident._frame_id.f[1])
                   /\ ident'._frame_id = got'.made.obj
              ELSE /\ got'.made.obj = ident._frame_id
                   /\ ident' = ident
       /\ (ident._frame_id.kind # "int" /\ ident'._frame_id.kind # ident._frame_id.kind) =>
              /\ ident'._frame_id.kind = "int"
              /\ got' = got
       /\ (ident._frame_id.kind = "int" /\ ident'._frame_id.kind # "int") =>
              ident'._frame_id.kind = SelectedVariant(database, ident._is_extended_frame)
      ]_vars

C19_Witness ==
    /\ got.op = "Message.frame_id"
    /\ got.was.kind = "J1939FrameId"
    /\ got.made.obj.kind = "J1939FrameId"
    /\ got.db[1].use_gm_parameter_ids
    /\ database.use_gm_parameter_ids

\* The node of the given name.
NodeNamed(name) == CHOOSE node \in Nodes : node.name = name

\* C20: Node.encode on a node among the message's senders that has a
\* tp_tx_indentfier returns the payload Message.encode returns, under the
\* message's frame id with source_address (J1939) or source_id (GM extended)
\* replaced by the identifier and every other field as it was; on a node not
\* among the senders it raises KeyError.
C20_NodeEncode ==
    (tx.node # "" /\ tx.name = message.name) =>
        IF tx.node \notin Senders
        THEN tx.exc = "KeyError"
        ELSE \E plain \in {encode(message, tx.input, tx.scaling, tx.padding, tx.strict)} :
                (plain.status = "ok" /\ NodeNamed(tx.node).tp_tx_indentfier # None) =>
                    /\ tx.status = "ok"
                    /\ tx.frame = plain.frame
                    /\ tx._frame_id.kind = tx.before.kind
                    /\ tx.before.kind = "J1939FrameId" =>
                           tx._frame_id.f =
                               [tx.before.f EXCEPT ![6] = NodeNamed(tx.node).tp_tx_indentfier.n]
                    /\ tx.before.kind = "GMParameterIdExtended" =>
                           tx._frame_id.f =
                               [tx.before.f EXCEPT ![3] = NodeNamed(tx.node).tp_tx_indentfier.n]

C20_Witness ==
    /\ tx.node = "ECU1"
    /\ tx.status = "ok"
    /\ tx.before = J1939FrameId(6, 0, 0, 238, 255, 0)
    /\ tx._frame_id = J1939FrameId(6, 0, 0, 238, 255, 37)

(***************************************************************************)
(* Start values, node-scoped frames.                                       *)
(***************************************************************************)
\* The signals of the entered nodes that the caller's dict left out and the
\* encoder filled in from their start value.
FilledIn(msg, path, input) ==
    {s \in EnteredSignals(msg, path) :
        s.name \notin DOMAIN input /\ IsNum(gen_sig_start_value(s))}

\* C30: when encode with strict and scaling fills in an omitted signal from
\* its start value, the raw integer packed into the signal's bits is the
\* start value itself, whatever the signal's scale and offset.
C30_StartValueIsRaw ==
    (tx.status = "ok" /\ tx.strict /\ tx.scaling) =>
        \A s \in FilledIn(message, tx.path, tx.input) :
            tx.raw[s.name] = gen_sig_start_value(s)

\* C29: Node.encode leaves the message as it was: once it has returned, the
\* message's own frame id is the one the message had when the call read it,
\* whatever the node's tp_tx_indentfier.
C29_NodeEncodeLeavesMessage ==
    (tx.node # "" /\ tx.status = "ok") => ident._frame_id = tx.before

(***************************************************************************)
(* The database: receivers, lookups, decode results.                       *)
(***************************************************************************)
\* The nodes of the database listed as a receiver of at least one signal of
\* the message.
ListedReceivers(msg) ==
    {node \in Nodes : \E i \in 1..Len(msg.signals) : node.name \in msg.signals[i].receivers}

\* C21: Message.receivers holds exactly the database nodes that are a
\* receiver of at least one signal of the message, so Node.decode called on
\* such a node for that message does not reject the node.
C21_ReceiversFromSignals ==
    (ret.op = "node_decode" /\ ret.oid # 0) =>
        \E msg \in {MessageOf(dbase, ret.oid)} :
            /\ Message_receivers(Nodes, msg) = ListedReceivers(msg)
            /\ (\E node \in ListedReceivers(msg) : node.name = ret.node)
                   => ret.exc # "KeyError"

\* The last message of the database's list that has the given frame id, 0 if
\* there is none.
LastWithFrameId(self, frame_id) ==
    LET at == {i \in 1..Len(self._messages) :
                  self.objects[self._messages[i]].frame_id = frame_id}
    IN IF at = {} THEN 0 ELSE self._messages[Max(at)]

\* C22: when two messages of the database have the same frame id,
\* get_message, encode_message and decode_message called with that integer
\* resolve to the one added later.
C22_LastWriteWins ==
    (ret.op \in {"get_message", "encode_message", "decode_message"} /\ IsNum(ret.key)) =>
        ret.oid = LastWithFrameId(dbase, ret.key.n)

(***************************************************************************)
(* Scenario S1.                                                            *)
(***************************************************************************)
\* encode_message on the message TX with the data of scenario S1, without
\* padding.
IsScenarioS1 ==
    /\ ret.op = "encode_message"
    /\ ret.oid = 1
    /\ ret.input = DbInput(Made[1].msg)
    /\ ~ret.padding

Named(result, name) == {i \in 1..Len(result) : result[i] = name}

\* C24: a decode result can be read by position and by signal name; writing
\* result[name] = value overwrites the entry of that name, leaving the count
\* and the other positions as they were, or appends when there is none, and
\* result[name] then returns value; no two entries go by the same name.
C24_ResultByName ==
    (ret.op = "setitem" /\ IsStr(ret.key)) =>
        /\ ret.exc = "none"
        /\ ret.read.exc = "none"
        /\ ret.read.value = ret.value
        /\ \A i \in Named(ret.before, ret.key) : \A j \in Named(ret.before, ret.key) : i = j
        /\ IF Named(ret.before, ret.key) # {}
           THEN /\ Len(ret.result) = Len(ret.before)
                /\ \A i \in 1..Len(ret.before) :
                      i \notin Named(ret.before, ret.key) => ret.result[i] = ret.before[i]
           ELSE ret.result = Append(ret.before, ret.value)

\* The buffer cut to the length of the message, or filled up to it with
\* zero bytes.
Normalized(frame, length) ==
    [i \in 1..length |-> IF i <= Len(frame) THEN frame[i] ELSE 0]

\* C25: decode brings the buffer to the length of the message before it
\* unpacks: the bytes beyond the length are ignored, and a shorter buffer is
\* padded, so that decode does not fail because the buffer is short.
C25_BufferNormalized ==
    (ret.op = "decode_message" /\ ret.oid # 0) =>
        \E msg \in {MessageOf(dbase, ret.oid)} :
        \E r \in {decode(msg, Normalized(ret.frame, msg.length), TRUE, TRUE)} :
            /\ ret.status = r.status
            /\ ret.exc = r.exc
            /\ ret.result = r.result

(***************************************************************************)
(* Lookup by name.                                                         *)
(***************************************************************************)
\* The last message of the database's list that has the given name now, 0 if
\* there is none.
LastWithName(self, name) ==
    LET at == {i \in 1..Len(self._messages) : self.objects[self._messages[i]].name = name}
    IN IF at = {} THEN 0 ELSE self._messages[Max(at)]

\* C28: after Database.refresh, get_message(n) returns the last message of
\* the list whose name is n now and raises KeyError when there is none, the
\* old name of a renamed message included, and every message of the list has
\* the database as its parent; between a rename and the next refresh the
\* renamed message is still found under the old name it was found under.
C28_NameLookupFollowsRefresh ==
    /\ dbase.last = "refresh" =>
          \A i \in 1..Len(dbase._messages) : dbase.objects[dbase._messages[i]]._parent = "db"
    /\ (ret.op = "get_message" /\ IsStr(ret.key)) =>
          /\ dbase.last = "refresh" =>
                /\ ret.oid = LastWithName(dbase, ret.key.s)
                /\ (ret.exc = "KeyError") = (LastWithName(dbase, ret.key.s) = 0)
          /\ (dbase.last = "rename" /\ ret.key.s = dbase.renamed.old
                  /\ dbase.renamed.was = dbase.renamed.oid) =>
                ret.oid = dbase.renamed.oid

\* A message was renamed, the database refreshed, and the old name looked up.
C28_Witness ==
    /\ ret.op = "get_message"
    /\ dbase.last = "refresh"
    /\ dbase.renamed.was = dbase.renamed.oid
    /\ dbase.renamed.oid # 0
    /\ ret.key = Str(dbase.renamed.old)
    /\ ret.exc = "KeyError"
    /\ LastWithName(dbase, "Renamed") = dbase.renamed.oid

(***************************************************************************)
(* The multiplex tree and the overlap validator.                           *)
(***************************************************************************)
\* The keys of a signal's choices.
ChoiceKeys(signal) ==
    IF signal.choices.none THEN {}
    ELSE {signal.choices.items[i].n : i \in 1..Len(signal.choices.items)}

\* The selector values a multiplexer has a branch for.
BranchIds(signals, m) ==
    UNION {signals[i].multiplexer_ids :
              i \in {j \in 1..Len(signals) : signals[j].multiplexer_signal = m.name}}
    \cup ChoiceKeys(m)

\* The signals of the node below `parent` for selector value `id` (of the
\* root for NoName): those whose parent it is and whose ids contain the value.
Members(signals, parent, id) ==
    {signals[i] : i \in {j \in 1..Len(signals) :
        /\ signals[j].multiplexer_signal = parent
        /\ parent # NoName => id \in signals[j].multiplexer_ids}}

\* A tree node holds exactly its members, and every multiplexer among them
\* has exactly its branches, each a node of the same kind.
RECURSIVE TreeLaw(_, _, _, _)
TreeLaw(signals, tree, parent, id) ==
    /\ {tree[i].name : i \in 1..Len(tree)} = {s.name : s \in Members(signals, parent, id)}
    /\ Len(tree) = Cardinality(Members(signals, parent, id))
    /\ \A i \in 1..Len(tree) :
          \E m \in {get_signal_by_name(signals, tree[i].name)} :
             IF m.is_multiplexer /\ BranchIds(signals, m) # {}
             THEN /\ tree[i].mux
                  /\ DOMAIN tree[i].children = BranchIds(signals, m)
                  /\ \A v \in BranchIds(signals, m) :
                        TreeLaw(signals, tree[i].children[v], m.name, v)
             ELSE ~tree[i].mux

\* C27: after Message.refresh the root of the tree holds exactly the signals
\* without a multiplexer_signal; a multiplexer M has a child node for exactly
\* the values in the multiplexer_ids of the signals whose parent is M and in
\* the keys of M's choices; the child for v holds exactly the signals whose
\* parent is M and whose ids contain v; a multiplexer without children and
\* choices has no branch map.
C27_TreeConstruction ==
    ret = NoRet =>
        \A oid \in Oids :
            TreeLaw(Made[oid].msg.signals, dbase.objects[oid].signal_tree, NoName, 0)

\* A refreshed database holds the message whose selector has a branch through
\* a choice key alone, and the message with a multiplexer without branches.
C27_Witness ==
    /\ ret = NoRet
    /\ dbase.last = "refresh"
    /\ dbase.edits > 0
    /\ dbase._messages = <<4, 5>>
    /\ dbase.objects[4].signal_tree[1].mux
    /\ DOMAIN dbase.objects[4].signal_tree[1].children = {1, 2, 3}
    /\ dbase.objects[4].signal_tree[1].children[3] = <<>>
    /\ \E i \in 1..Len(dbase.objects[5].signal_tree) :
          /\ dbase.objects[5].signal_tree[i].name = "lone"
          /\ ~dbase.objects[5].signal_tree[i].mux

\* The stream positions a bit array has marked.
Marked(bits) == {i - 1 : i \in {j \in 1..Len(bits) : bits[j] # NoName}}

\* The validator printed a line about the signal.
Reported(report, name) == \E i \in 1..Len(report) : report[i].signal = name

\* The names of the signals of a subtree, at any depth.
RECURSIVE TreeNames(_)
TreeNames(tree) ==
    UNION {{tree[i].name} \cup
           (IF tree[i].mux
            THEN UNION {TreeNames(tree[i].children[v]) : v \in DOMAIN tree[i].children}
            ELSE {}) : i \in 1..Len(tree)}

\* The validator's state when it reaches position p of the root of the tree,
\* after it has marked the multiplexer at p, at the end of branch v of that
\* multiplexer, and after the multiplexer is processed.
Before(msg, p) ==
    _check_signal_tree(msg.signals, [bits |-> Nones(8 * msg.length), report |-> <<>>],
                       SubSeq(msg.signal_tree, 1, p - 1))

AfterSelector(msg, p) ==
    _check_signal(Before(msg, p), get_signal_by_name(msg.signals, msg.signal_tree[p].name))

Branch(msg, p, v) ==
    _check_signal_tree(msg.signals, [bits |-> AfterSelector(msg, p).bits, report |-> <<>>],
                       msg.signal_tree[p].children[v])

AfterMux(msg, p) == _check_mux(msg.signals, Before(msg, p), msg.signal_tree[p])

OverlapLaw(msg, report) ==
    /\ \A i \in 1..Len(report) :
          report[i].kind = "overlap" =>
              CoPresent(msg, get_signal_by_name(msg.signals, report[i].signal),
                             get_signal_by_name(msg.signals, report[i].other))
    /\ \A p \in {q \in 1..Len(msg.signal_tree) : msg.signal_tree[q].mux} :
          /\ \A v \in DOMAIN msg.signal_tree[p].children :
             \A name \in TreeNames(msg.signal_tree[p].children[v]) :
                BitPositions(get_signal_by_name(msg.signals, name))
                        \cap Marked(AfterSelector(msg, p).bits) # {}
                    => Reported(report, name)
          /\ Marked(AfterMux(msg, p).bits) =
                Marked(AfterSelector(msg, p).bits)
                \cup UNION {Marked(Branch(msg, p, v).bits) :
                               v \in DOMAIN msg.signal_tree[p].children}
          /\ \A q \in (p + 1)..Len(msg.signal_tree) :
                BitPositions(get_signal_by_name(msg.signals, msg.signal_tree[q].name))
                        \cap Marked(AfterMux(msg, p).bits) # {}
                    => Reported(report, msg.signal_tree[q].name)

\* C26: the validator gives every branch of a multiplexer a copy of the bits
\* as they are once the multiplexer is marked: it reports no two signals that
\* lie in different branches of one multiplexer, it reports every branch
\* signal that claims a bit the multiplexer or a signal checked before it at
\* the level above has marked, and once the multiplexer is processed the bits
\* of all its branches are marked, so that every signal checked after it at
\* its level that claims one of them is reported.
C26_BranchesOverlap ==
    ret = NoRet =>
        \A i \in 1..Len(dbase._messages) :
            OverlapLaw(Made[dbase._messages[i]].msg, dbase.objects[dbase._messages[i]].report)

\* A refreshed database holds the message whose branches share bits with one
\* another and with a later root signal, and the message whose branch signals
\* claim a bit of the selector and a bit of an earlier root signal.
C26_Witness ==
    /\ ret = NoRet
    /\ dbase.last = "refresh"
    /\ dbase.edits > 0
    /\ dbase._messages = <<2, 3>>
    /\ BitPositions(get_signal_by_name(Made[2].msg.signals, "x"))
           \cap BitPositions(get_signal_by_name(Made[2].msg.signals, "y")) # {}
    /\ ~Reported(dbase.objects[2].report, "x")
    /\ ~Reported(dbase.objects[2].report, "y")
    /\ Reported(dbase.objects[2].report, "r")
    /\ Reported(dbase.objects[3].report, "x")
    /\ Reported(dbase.objects[3].report, "z")

=============================================================================
